---- MODULE Spec2Model ----
(***************************************************************************)
(* A model of the traffic grid simulation of src/src: the Vehicle          *)
(* (models/vehicle.py), the Grid and its direction queues                  *)
(* (models/grid.py), the TrafficLight (models/traffic_light.py), the       *)
(* SimpleController and its four schedulers (controllers/simple.py,        *)
(* controllers/scheduler.py) and the phases of Simulation.step             *)
(* (simulation.py).  Spec runs the simulation with the scheduler the       *)
(* controller selects by default, SchedulerSpec with a scheduler chosen    *)
(* by set_scheduler, VehicleSpec drives one Vehicle on its own and         *)
(* IndependentSpec the independent scheduler on queues of any length.      *)
(* PauseSpec adds toggle_pause and the selections of the detail view,      *)
(* DrainSpec runs step() for ever on vehicles placed on a grid that spawns *)
(* none, StarveSpec runs it for ever on a grid that spawns them.  TownSpec *)
(* is the TrafficSimulation of src/simulation.py on the Town, the Vehicle  *)
(* and the TrafficLight of src/traffic_model.py.                           *)
(*                                                                         *)
(* Positions are <<row, col>>.  Lengths of the weighted graph are kept in  *)
(* tenths (an orthogonal edge weighs 10, a diagonal edge 14).              *)
(* Vehicle.path_history is display data derived from waiting_times and is  *)
(* not modelled.                                                           *)
(***************************************************************************)
EXTENDS Integers, Sequences, FiniteSets, TLC

\* ------------------------------------------------------------------ bounds
\* Vehicles ever created in one run, and ticks of one run.
MaxVehicles == 3
MaxTime == 5

\* Ticks of a run in which no vehicle can ever be created.
MaxIdleTime == 31

\* Ticks of a run that spawns no vehicle and has vehicles on the grid.
MaxDrainTime == 12

\* The last tick before whose step set_scheduler is called, in a run with
\* vehicles and in a run without.
MaxSetTime == 0
MaxIdleSetTime == 6

\* The grids a run is constructed with (Simulation(rows, cols, p1)).
GridSizes == { <<4, 4>>, <<3, 3>>, <<1, 1>>, <<0, 3>> }

\* The spawn probabilities p1 a run on grid g is constructed with, in
\* tenths: 1 is the default 0.1, -5 is -0.5.
SpawnProbabilities(g) ==
    IF g = <<3, 3>> THEN { 1, 0, -5 }
    ELSE IF g = <<1, 1>> THEN { 0, 1, 10 }
    ELSE { 1 }

\* The intersections at which the random draw of generate_vehicles may
\* succeed when 0 < p1 < 1, and the destinations it may draw, per grid.
SpawnSites(g) ==
    IF g = <<4, 4>> THEN { <<1, 1>> }
    ELSE IF g = <<3, 3>> THEN { <<0, 2>> }
    ELSE IF g = <<1, 1>> THEN { <<0, 0>> }
    ELSE { }
SpawnDests(g) ==
    IF g = <<4, 4>> THEN { <<3, 2>>, <<1, 3>>, <<1, 1>> }
    ELSE IF g = <<3, 3>> THEN { <<0, 0>>, <<1, 2>>, <<0, 2>> }
    ELSE IF g = <<1, 1>> THEN { <<0, 0>> }
    ELSE { }

\* ------------------------------------------------------------- constants
NORTH == "North"
SOUTH == "South"
EAST == "East"
WEST == "West"
HORIZONTAL == "HORIZONTAL"
VERTICAL == "VERTICAL"
Directions == { NORTH, SOUTH, EAST, WEST }

\* The order in which move_vehicles walks the four queues.
DirectionOrder == << NORTH, SOUTH, EAST, WEST >>

min_green_time == 5
max_green_time == 15

\* ------------------------------------------------------------ arithmetic
Abs(x) == IF x < 0 THEN -x ELSE x
Min2(a, b) == IF a < b THEN a ELSE b
Max2(a, b) == IF a > b THEN a ELSE b

\* Python's floor division and modulo by a positive divisor.
FloorDiv(a, b) == a \div b
PyMod(a, b) == a % b

Positions(g) == (0 .. g[1] - 1) \X (0 .. g[2] - 1)

\* dict order of intersection_queues: rows outer, cols inner.
PosSeq(g) == [ k \in 1 .. g[1] * g[2] |-> << (k - 1) \div g[2], (k - 1) % g[2] >> ]

\* Mutant of RemoveFirst: the last element takes the place of the removed one.
RemoveFirst_SwapLast(s, x) ==
    IF ~(\E k \in 1 .. Len(s) : s[k] = x) THEN s
    ELSE LET i == CHOOSE k \in 1 .. Len(s) : s[k] = x /\ \A j \in 1 .. k - 1 : s[j] # x
         IN  [ k \in 1 .. Len(s) - 1 |-> IF k = i THEN s[Len(s)] ELSE s[k] ]

RECURSIVE RemoveFirst(_, _)
\* list.remove(x): drops the first occurrence only.
RemoveFirst(s, x) ==
    IF s = << >> THEN << >>
    ELSE IF Head(s) = x THEN Tail(s)
    ELSE << Head(s) >> \o RemoveFirst(Tail(s), x)

InSeq(s, x) == \E k \in 1 .. Len(s) : s[k] = x
SeqSet(s) == { s[k] : k \in 1 .. Len(s) }

\* ------------------------------------------------- Vehicle._calculate_path
IsOrthPair(g, u, v) ==
    \E p \in Positions(g) :
        \/ {u, v} = { p, << (p[1] + 1) % g[1], p[2] >> }
        \/ {u, v} = { p, << p[1], (p[2] + 1) % g[2] >> }

IsDiagPair(g, u, v) ==
    \E p \in Positions(g) :
        LET next_i == (p[1] + 1) % g[1]
            next_j == (p[2] + 1) % g[2]
        IN  \/ {u, v} = { p, << next_i, next_j >> }
            \/ {u, v} = { << p[1], next_j >>, << next_i, p[2] >> }

\* Weight of the edge u-v of G in tenths, 0 when G has no such edge.  A later
\* add_edge overwrites the weight, and the diagonal edges are added last.
EdgeWeight(g, u, v) ==
    IF IsDiagPair(g, u, v) THEN 14
    ELSE IF IsOrthPair(g, u, v) THEN 10
    ELSE 0

\* The nodes G joins to t; every edge joins nodes at most one row and one
\* column apart (modulo the grid size).
Neighbours(g, t) ==
    { x \in { << (t[1] + a) % g[1], (t[2] + b) % g[2] >> :
                a \in { 0, 1, g[1] - 1 }, b \in { 0, 1, g[2] - 1 } } :
        x # t /\ EdgeWeight(g, x, t) > 0 }

RECURSIVE PathsOfWeight(_, _, _, _)
\* The paths of G from s to t whose edge weights add up to w.
PathsOfWeight(g, s, t, w) ==
    IF w = 0 THEN (IF s = t THEN { << s >> } ELSE {})
    ELSE UNION { { Append(p, t) : p \in PathsOfWeight(g, s, u, w - EdgeWeight(g, u, t)) } :
                   u \in { x \in Neighbours(g, t) : EdgeWeight(g, x, t) <= w } }

RECURSIVE LightestPaths(_, _, _, _)
LightestPaths(g, s, t, w) ==
    IF w > 14 * g[1] * g[2] THEN {}
    ELSE IF PathsOfWeight(g, s, t, w) # {} THEN PathsOfWeight(g, s, t, w)
    ELSE LightestPaths(g, s, t, w + 2)

\* Mutant of ShortestPaths: the route along the rows and then along the
\* columns that never leaves the grid by an edge.
ShortestPaths_NoWrap(g, s, t) ==
    LET rows == Abs(t[1] - s[1])
        cols == Abs(t[2] - s[2])
        sr == IF t[1] >= s[1] THEN 1 ELSE -1
        sc == IF t[2] >= s[2] THEN 1 ELSE -1
    IN  { [ k \in 1 .. rows + cols + 1 |->
              IF k - 1 <= rows THEN << s[1] + sr * (k - 1), s[2] >>
              ELSE << t[1], s[2] + sc * (k - 1 - rows) >> ] }

\* nx.shortest_path(G, start, destination, weight='weight') returns one
\* minimum-weight path; which one is the library's choice.  The eight
\* wrapped destinations equal the destination, so argmin keeps that path.
ShortestPaths(g, s, t) == LightestPaths(g, s, t, 0)

PathTable ==
    [ g \in GridSizes |->
        [ s \in SpawnSites(g) |->
            [ t \in SpawnDests(g) |-> ShortestPaths(g, s, t) ] ] ]

\* ---------------------------------------------------------------- Vehicle
\* Vehicle.__init__
NewVehicle(start, destination, grid_size, path) ==
    [ current_pos |-> start,
      destination |-> destination,
      grid_size |-> grid_size,
      path |-> path,
      current_path_index |-> 0,
      steps_taken |-> 0,
      distance_traveled |-> 0,
      waiting_times |-> [ p \in SeqSet(path) |-> 0 ],
      last_move_time |-> 0 ]

\* path[i] of the 0-based Python list.
PathAt(v, i) == v.path[i + 1]

get_next_position(v) ==
    IF v.current_path_index + 1 < Len(v.path)
    THEN PathAt(v, v.current_path_index + 1)
    ELSE v.current_pos

\* Mutant of move: the distance is counted on every call.
move_CountsEveryCall(v) ==
    IF v.current_path_index + 1 < Len(v.path)
    THEN [ v EXCEPT !.current_path_index = v.current_path_index + 1,
                    !.current_pos = PathAt(v, v.current_path_index + 1),
                    !.distance_traveled = v.distance_traveled + 1,
                    !.last_move_time = v.steps_taken ]
    ELSE [ v EXCEPT !.distance_traveled = v.distance_traveled + 1 ]

\* Mutant of move: the step is taken and not counted as distance.
move_NoDistance(v) ==
    IF v.current_path_index + 1 < Len(v.path)
    THEN [ v EXCEPT !.current_path_index = v.current_path_index + 1,
                    !.current_pos = PathAt(v, v.current_path_index + 1),
                    !.last_move_time = v.steps_taken ]
    ELSE v

move(v) ==
    IF v.current_path_index + 1 < Len(v.path)
    THEN [ v EXCEPT !.current_path_index = v.current_path_index + 1,
                    !.current_pos = PathAt(v, v.current_path_index + 1),
                    !.distance_traveled = v.distance_traveled + 1,
                    !.last_move_time = v.steps_taken ]
    ELSE v

\* Mutant of update_time: the waiting time is booked on the start position.
update_time_StartKey(v) ==
    [ v EXCEPT !.steps_taken = v.steps_taken + 1,
               !.waiting_times[v.path[1]] = v.waiting_times[v.path[1]] + 1 ]

update_time(v) ==
    [ v EXCEPT !.steps_taken = v.steps_taken + 1,
               !.waiting_times[v.current_pos] = v.waiting_times[v.current_pos] + 1 ]

has_reached_destination(v) == v.current_pos = v.destination

\* (b - a + n//2) % n - n//2
WrapDelta(a, b, n) == PyMod(b - a + FloorDiv(n, 2), n) - FloorDiv(n, 2)

\* Mutant of get_turn_type: a vehicle on its last hop is said to turn right.
get_turn_type_LastHopRight(v) ==
    IF v.current_path_index + 1 >= Len(v.path) THEN "straight"
    ELSE
      LET current == v.current_pos
          next_pos == PathAt(v, v.current_path_index + 1)
          dx == WrapDelta(current[2], next_pos[2], v.grid_size[2])
          dy == WrapDelta(current[1], next_pos[1], v.grid_size[1])
      IN  IF v.current_path_index + 2 < Len(v.path)
          THEN LET next_next == PathAt(v, v.current_path_index + 2)
                   dx_next == WrapDelta(next_pos[2], next_next[2], v.grid_size[2])
                   dy_next == WrapDelta(next_pos[1], next_next[1], v.grid_size[1])
               IN  IF dx = 0 /\ dx_next # 0
                   THEN IF (dy > 0 /\ dx_next > 0) \/ (dy < 0 /\ dx_next < 0)
                        THEN "right" ELSE "left"
                   ELSE IF dy = 0 /\ dy_next # 0
                   THEN IF (dx > 0 /\ dy_next < 0) \/ (dx < 0 /\ dy_next > 0)
                        THEN "right" ELSE "left"
                   ELSE "straight"
          ELSE "right"

get_turn_type(v) ==
    IF v.current_path_index + 1 >= Len(v.path) THEN "straight"
    ELSE
      LET current == v.current_pos
          next_pos == PathAt(v, v.current_path_index + 1)
          dx == WrapDelta(current[2], next_pos[2], v.grid_size[2])
          dy == WrapDelta(current[1], next_pos[1], v.grid_size[1])
      IN  IF v.current_path_index + 2 < Len(v.path)
          THEN LET next_next == PathAt(v, v.current_path_index + 2)
                   dx_next == WrapDelta(next_pos[2], next_next[2], v.grid_size[2])
                   dy_next == WrapDelta(next_pos[1], next_next[1], v.grid_size[1])
               IN  IF dx = 0 /\ dx_next # 0
                   THEN IF (dy > 0 /\ dx_next > 0) \/ (dy < 0 /\ dx_next < 0)
                        THEN "right" ELSE "left"
                   ELSE IF dy = 0 /\ dy_next # 0
                   THEN IF (dx > 0 /\ dy_next < 0) \/ (dx < 0 /\ dy_next > 0)
                        THEN "right" ELSE "left"
                   ELSE "straight"
          ELSE "straight"

get_next_direction(v) ==
    IF v.current_path_index + 1 >= Len(v.path) THEN "Destination"
    ELSE
      LET current == v.current_pos
          next_pos == PathAt(v, v.current_path_index + 1)
          dx == WrapDelta(current[2], next_pos[2], v.grid_size[2])
          dy == WrapDelta(current[1], next_pos[1], v.grid_size[1])
      IN  IF dx > 0 THEN EAST
          ELSE IF dx < 0 THEN WEST
          ELSE IF dy > 0 THEN SOUTH
          ELSE NORTH

\* ------------------------------------------------------------------- Grid
\* -n//2 is (-n)//2 in Python.
get_direction_from_positions(g, current, next_pos) ==
    LET dx0 == next_pos[2] - current[2]
        dy0 == next_pos[1] - current[1]
        dx == IF dx0 > FloorDiv(g[2], 2) THEN dx0 - g[2]
              ELSE IF dx0 < FloorDiv(-g[2], 2) THEN dx0 + g[2]
              ELSE dx0
        dy == IF dy0 > FloorDiv(g[1], 2) THEN dy0 - g[1]
              ELSE IF dy0 < FloorDiv(-g[1], 2) THEN dy0 + g[1]
              ELSE dy0
    IN  IF Abs(dx) > Abs(dy)
        THEN (IF dx > 0 THEN << 1, 0 >> ELSE << -1, 0 >>)
        ELSE (IF dy > 0 THEN << 0, 1 >> ELSE << 0, -1 >>)

\* The queue add_vehicle and remove_vehicle pick for a direction vector.
QueueOfDirection(direction) ==
    IF direction = << 0, -1 >> THEN NORTH
    ELSE IF direction = << 0, 1 >> THEN SOUTH
    ELSE IF direction = << 1, 0 >> THEN EAST
    ELSE WEST

VehicleQueue(g, position, v) ==
    QueueOfDirection(get_direction_from_positions(g, position, get_next_position(v)))

\* Mutant of add_vehicle: an arrived vehicle is queued as well.
add_vehicle_NoArrivalCheck(g, q, position, v, id) ==
    [ q EXCEPT ![position][VehicleQueue(g, position, v)] = Append(@, id) ]

\* Grid.add_vehicle on the queues q; id names the vehicle object v.
add_vehicle(g, q, position, v, id) ==
    IF ~has_reached_destination(v)
    THEN [ q EXCEPT ![position][VehicleQueue(g, position, v)] = Append(@, id) ]
    ELSE q

\* Grid.remove_vehicle
remove_vehicle(g, q, position, v, id) ==
    IF ~has_reached_destination(v)
    THEN [ q EXCEPT ![position][VehicleQueue(g, position, v)] = RemoveFirst(@, id) ]
    ELSE q

\* None as the selected intersection (no position) and as the selected
\* vehicle (no vehicle: vehicles are numbered from 1)
NoIntersection == << >>
NoVehicle == 0

\* ------------------------------------------------------------------ state
VARIABLES
    grid_size,            \* (rows, cols) the simulation was constructed with
    intersection_queues,  \* Grid.intersection_queues: position -> direction -> list of vehicles
    traffic_lights,       \* Grid.traffic_lights: position -> green direction of the light
    intersection_timers,  \* IndependentScheduler.intersection_timers (a dict, empty at first)
    vehicles,             \* the Vehicle objects in order of creation
    time_step,            \* Simulation.time_step
    active_vehicles,      \* Simulation.active_vehicles
    pc,                   \* the phase of Simulation.step that runs next, the exception that ended it or the loop it cannot leave
    moved_vehicles,       \* the set moved_vehicles of the last move_vehicles call
    pre_queues,           \* intersection_queues on entry of the last phase that ran
    pre_vehicles,         \* vehicles on entry of the last phase that ran
    current_scheduler,    \* SimpleController.current_scheduler, by its key in schedulers
    current_green_time,   \* current_green_time of the density or adaptive scheduler in use
    p1,                   \* Simulation.p1 in tenths
    passes_since_switch,  \* position -> scheduler passes completed since the light last changed
    paused,               \* Simulation.paused
    selected_intersection, \* Simulation.selected_intersection, a position or NoIntersection
    selected_vehicle,     \* Simulation.selected_vehicle, a vehicle or NoVehicle
    town                  \* the TrafficSimulation of src/simulation.py and its Town, "None" where it is not built

vars == << grid_size, intersection_queues, traffic_lights, intersection_timers,
           vehicles, time_step, active_vehicles, pc, moved_vehicles,
           pre_queues, pre_vehicles, current_scheduler, current_green_time,
           p1, passes_since_switch, paused, selected_intersection,
           selected_vehicle, town >>

\* the pause flag and the selections of the detail view
selection_vars == << paused, selected_intersection, selected_vehicle >>

\* the state of the controller's choice of scheduler
scheduler_vars == << current_scheduler, current_green_time >>

VehicleIds == 1 .. Len(vehicles)

\* Grid.__init__
EmptyQueues(g) == [ p \in Positions(g) |-> [ d \in Directions |-> << >> ] ]

\* TrafficLight.__init__
InitialLights(g) == [ p \in Positions(g) |-> HORIZONTAL ]

NoPasses(g) == [ p \in Positions(g) |-> 0 ]

\* Simulation.__init__ with the default controller (IndependentScheduler);
\* rows, cols and p1 are stored as given.
Init ==
    /\ grid_size \in GridSizes
    /\ p1 \in SpawnProbabilities(grid_size)
    /\ passes_since_switch = NoPasses(grid_size)
    /\ paused = FALSE
    /\ selected_intersection = NoIntersection
    /\ selected_vehicle = NoVehicle
    /\ town = "None"
    /\ intersection_queues = EmptyQueues(grid_size)
    /\ traffic_lights = InitialLights(grid_size)
    /\ intersection_timers = [ p \in {} |-> 0 ]
    /\ vehicles = << >>
    /\ time_step = 0
    /\ active_vehicles = 0
    /\ pc = "controller"
    /\ moved_vehicles = {}
    /\ pre_queues = EmptyQueues(grid_size)
    /\ pre_vehicles = << >>
    /\ current_scheduler = "independent"
    /\ current_green_time = [ p \in {} |-> 0 ]

\* -------------------------------------------- IndependentScheduler.schedule
\* Mutant of switch: the light goes to VERTICAL whatever it shows.
switch_ToVertical(light) == VERTICAL

\* TrafficLight.switch
switch(light) == IF light = HORIZONTAL THEN VERTICAL ELSE HORIZONTAL

\* TrafficLight.is_green
is_green(light, direction) == light = direction

\* TrafficLight.update: the body is "pass"
update(light, controller) == light

TimerOf(timers, pos) == IF pos \in DOMAIN timers THEN timers[pos] ELSE 0

horizontal_count(q, pos) == Len(q[pos][EAST]) + Len(q[pos][WEST])
vertical_count(q, pos) == Len(q[pos][NORTH]) + Len(q[pos][SOUTH])

\* Mutant of green_time: the upper clamp is left out.
green_time_NoMax(q, light, pos) ==
    LET cur == IF light = HORIZONTAL THEN horizontal_count(q, pos) ELSE vertical_count(q, pos)
        opp == IF light = HORIZONTAL THEN vertical_count(q, pos) ELSE horizontal_count(q, pos)
    IN  Max2(min_green_time, FloorDiv(10 * cur, opp + 1))

\* min(max(min_green_time, int(ratio * 10)), max_green_time)
green_time(q, light, pos) ==
    LET cur == IF light = HORIZONTAL THEN horizontal_count(q, pos) ELSE vertical_count(q, pos)
        opp == IF light = HORIZONTAL THEN vertical_count(q, pos) ELSE horizontal_count(q, pos)
    IN  Min2(Max2(min_green_time, FloorDiv(10 * cur, opp + 1)), max_green_time)

ShouldSwitch(q, lights, timers, pos) ==
    TimerOf(timers, pos) + 1 >= green_time(q, lights[pos], pos)

\* generate_vehicles can create a vehicle in this run: the draw against p1
\* can succeed and an intersection has another one to go to
SpawnsVehicles == p1 > 0 /\ Cardinality(Positions(grid_size)) > 1

\* the ticks a run is followed for: MaxTime while vehicles are spawned,
\* MaxDrainTime with vehicles and no spawning, MaxIdleTime when there never
\* was a vehicle
TimeBound ==
    IF SpawnsVehicles THEN MaxTime
    ELSE IF vehicles = << >> THEN MaxIdleTime
    ELSE MaxDrainTime

\* passes_since_switch after a pass that leaves the lights as lights
PassesAfter(lights) ==
    [ p \in Positions(grid_size) |->
        IF lights[p] # traffic_lights[p] THEN 0 ELSE passes_since_switch[p] + 1 ]

\* Simulation.step past its pause check, then SimpleController.update with
\* the independent scheduler
ControllerUpdate ==
    /\ pc = "controller"
    /\ ~paused
    /\ current_scheduler = "independent"
    /\ time_step < TimeBound
    /\ traffic_lights' =
         [ p \in Positions(grid_size) |->
             IF ShouldSwitch(intersection_queues, traffic_lights, intersection_timers, p)
             THEN switch(traffic_lights[p]) ELSE traffic_lights[p] ]
    /\ passes_since_switch' = PassesAfter(traffic_lights')
    /\ intersection_timers' =
         [ p \in Positions(grid_size) |->
             IF ShouldSwitch(intersection_queues, traffic_lights, intersection_timers, p)
             THEN 0 ELSE TimerOf(intersection_timers, p) + 1 ]
    /\ pre_queues' = intersection_queues
    /\ pre_vehicles' = vehicles
    /\ pc' = "move"
    /\ UNCHANGED scheduler_vars
    /\ UNCHANGED << grid_size, p1, town, selection_vars, intersection_queues, vehicles, time_step,
                    active_vehicles, moved_vehicles >>

\* ------------------------------------------------ Simulation.move_vehicles
\* Mutant of MoveOne: the vehicle is not taken out of its old queue.
MoveOne_NoRemove(g, st, pos, id) ==
    LET v1 == move(st.v[id])
        q2 == add_vehicle(g, st.q, v1.current_pos, v1, id)
    IN  [ q |-> q2, v |-> [ st.v EXCEPT ![id] = v1 ], moved |-> st.moved \cup { id } ]

\* Mutant of MoveOne: the vehicle is not put into the queue it moves to.
MoveOne_NoAdd(g, st, pos, id) ==
    LET q1 == remove_vehicle(g, st.q, pos, st.v[id], id)
        v1 == move(st.v[id])
    IN  [ q |-> q1, v |-> [ st.v EXCEPT ![id] = v1 ], moved |-> st.moved \cup { id } ]

\* st = [q: the queues, v: the vehicles, moved: moved_vehicles]
\* remove_vehicle; vehicle.move(); add_vehicle; moved_vehicles.add
MoveOne(g, st, pos, id) ==
    LET q1 == remove_vehicle(g, st.q, pos, st.v[id], id)
        v1 == move(st.v[id])
        q2 == add_vehicle(g, q1, v1.current_pos, v1, id)
    IN  [ q |-> q2, v |-> [ st.v EXCEPT ![id] = v1 ], moved |-> st.moved \cup { id } ]

\* Mutant of RightTurnVehicle: only the vehicle at the head of a queue turns.
RightTurnVehicle_HeadOnly(g, st, pos, id) ==
    IF id \in st.moved \/ has_reached_destination(st.v[id]) THEN st
    ELSE IF /\ get_turn_type(st.v[id]) = "right"
            /\ \E d \in Directions : st.q[pos][d] # << >> /\ Head(st.q[pos][d]) = id
         THEN MoveOne(g, st, pos, id)
    ELSE st

\* body of the loop over vehicles_to_process of the right-turn pass
RightTurnVehicle(g, st, pos, id) ==
    IF id \in st.moved \/ has_reached_destination(st.v[id]) THEN st
    ELSE IF get_turn_type(st.v[id]) = "right" THEN MoveOne(g, st, pos, id)
    ELSE st

\* The element of a one-element set.  The passes below write
\* { f(next) : next \in { state } } for f(state): the state is computed
\* once, however often f looks at it.
TheOne(S) == CHOOSE r \in S : TRUE

RECURSIVE RightTurnQueue(_, _, _, _, _)
RightTurnQueue(g, st, pos, list, k) ==
    IF k > Len(list) THEN st
    ELSE TheOne({ RightTurnQueue(g, next, pos, list, k + 1) :
                    next \in { RightTurnVehicle(g, st, pos, list[k]) } })

RECURSIVE RightTurnPass(_, _, _, _)
\* the loop over [NORTH, SOUTH, EAST, WEST]; list(queue) is copied per direction
RightTurnPass(g, st, pos, d) ==
    IF d > Len(DirectionOrder) THEN st
    ELSE TheOne({ RightTurnPass(g, next, pos, d + 1) :
                    next \in { RightTurnQueue(g, st, pos, st.q[pos][DirectionOrder[d]], 1) } })

\* Mutant of green_directions: the axes are exchanged.
green_directions_Swapped(light) ==
    IF light = HORIZONTAL THEN << NORTH, SOUTH >> ELSE << EAST, WEST >>

\* Mutant of green_directions: West is served before East and South before
\* North.
green_directions_SecondFirst(light) ==
    IF light = HORIZONTAL THEN << WEST, EAST >> ELSE << SOUTH, NORTH >>

green_directions(light) ==
    IF light = HORIZONTAL THEN << EAST, WEST >> ELSE << NORTH, SOUTH >>

\* Mutant of GreenQueue: the last eligible vehicle of the queue advances.
GreenQueue_Lifo(g, st, pos, list, k) ==
    LET eligible == { j \in k .. Len(list) :
                        /\ list[j] \notin st.moved
                        /\ ~has_reached_destination(st.v[list[j]])
                        /\ get_turn_type(st.v[list[j]]) \in { "straight", "left" } }
    IN  IF eligible = {} THEN [ st |-> st, moved_in_green |-> FALSE ]
        ELSE [ st |-> MoveOne(g, st, pos,
                              list[CHOOSE j \in eligible : \A i \in eligible : i <= j]),
               moved_in_green |-> TRUE ]

RECURSIVE GreenQueue_IgnoresMoved(_, _, _, _, _)
\* Mutant of GreenQueue: moved_vehicles is not looked at.
GreenQueue_IgnoresMoved(g, st, pos, list, k) ==
    IF k > Len(list) THEN [ st |-> st, moved_in_green |-> FALSE ]
    ELSE LET id == list[k]
         IN  IF has_reached_destination(st.v[id])
             THEN GreenQueue_IgnoresMoved(g, st, pos, list, k + 1)
             ELSE IF get_turn_type(st.v[id]) \in { "straight", "left" }
             THEN [ st |-> MoveOne(g, st, pos, id), moved_in_green |-> TRUE ]
             ELSE GreenQueue_IgnoresMoved(g, st, pos, list, k + 1)

RECURSIVE GreenQueue(_, _, _, _, _)
\* the loop over vehicles_to_process of one green queue: the first vehicle
\* that is neither moved nor arrived and goes straight or left advances
GreenQueue(g, st, pos, list, k) ==
    IF k > Len(list) THEN [ st |-> st, moved_in_green |-> FALSE ]
    ELSE LET id == list[k]
         IN  IF id \in st.moved \/ has_reached_destination(st.v[id])
             THEN GreenQueue(g, st, pos, list, k + 1)
             ELSE IF get_turn_type(st.v[id]) \in { "straight", "left" }
             THEN [ st |-> MoveOne(g, st, pos, id), moved_in_green |-> TRUE ]
             ELSE GreenQueue(g, st, pos, list, k + 1)

\* Mutant of GreenPass: every queue of the green group advances a vehicle.
GreenPass_PerQueue(g, st, pos, light) ==
    LET dirs == green_directions(light)
        r1 == GreenQueue(g, st, pos, st.q[pos][dirs[1]], 1)
    IN  GreenQueue(g, r1.st, pos, r1.st.q[pos][dirs[2]], 1).st

\* Mutant of GreenPass: only the first queue of the green group is looked at.
GreenPass_FirstQueueOnly(g, st, pos, light) ==
    GreenQueue(g, st, pos, st.q[pos][green_directions(light)[1]], 1).st

\* the loop over green_directions, left as soon as moved_in_green is set
GreenPass(g, st, pos, light) ==
    LET dirs == green_directions(light)
    IN  TheOne({ IF r1.moved_in_green THEN r1.st
                 ELSE GreenQueue(g, r1.st, pos, r1.st.q[pos][dirs[2]], 1).st :
                   r1 \in { GreenQueue(g, st, pos, st.q[pos][dirs[1]], 1) } })

ProcessIntersection(g, st, pos, light) ==
    TheOne({ GreenPass(g, turned, pos, light) :
               turned \in { RightTurnPass(g, st, pos, 1) } })

RECURSIVE ProcessIntersections(_, _, _, _)
\* the loop over self.grid.intersection_queues
ProcessIntersections(g, st, lights, k) ==
    IF k > g[1] * g[2] THEN st
    ELSE TheOne({ ProcessIntersections(g, next, lights, k + 1) :
                    next \in { ProcessIntersection(g, st, PosSeq(g)[k], lights[PosSeq(g)[k]]) } })

MoveVehicles ==
    /\ pc = "move"
    /\ LET st == ProcessIntersections(grid_size,
                     [ q |-> intersection_queues, v |-> vehicles, moved |-> {} ],
                     traffic_lights, 1)
       IN  /\ intersection_queues' = st.q
           /\ vehicles' = st.v
           /\ moved_vehicles' = st.moved
    /\ pre_queues' = intersection_queues
    /\ pre_vehicles' = vehicles
    /\ pc' = "time"
    /\ UNCHANGED scheduler_vars
    /\ UNCHANGED << grid_size, p1, town, selection_vars, passes_since_switch, traffic_lights, intersection_timers, time_step,
                    active_vehicles >>

\* ------------------------------------------ Simulation.update_vehicles_time
\* The entries of all queues: << position, direction, index in the queue >>.
QueueEntries(g, q) ==
    UNION { { << s[1], s[2], k >> : k \in 1 .. Len(q[s[1]][s[2]]) } :
              s \in Positions(g) \X Directions }

\* How many times the nested loops over the queues meet the vehicle id.
TimesQueued(g, q, id) ==
    Cardinality({ e \in QueueEntries(g, q) : q[e[1]][e[2]][e[3]] = id })

RECURSIVE UpdateTimeTimes(_, _)
UpdateTimeTimes(v, n) == IF n = 0 THEN v ELSE UpdateTimeTimes(update_time(v), n - 1)

\* vehicle.update_time() for every entry of every queue
UpdateTimes(g, q, v) ==
    [ id \in 1 .. Len(v) |-> UpdateTimeTimes(v[id], TimesQueued(g, q, id)) ]

\* Mutant of UpdateVehiclesTime: the step goes on to removal without spawning.
UpdateVehiclesTime_ThenRemove ==
    /\ pc = "time"
    /\ vehicles' = UpdateTimes(grid_size, intersection_queues, vehicles)
    /\ pre_queues' = intersection_queues
    /\ pre_vehicles' = vehicles
    /\ pc' = "remove"
    /\ UNCHANGED scheduler_vars
    /\ UNCHANGED << grid_size, p1, town, selection_vars, passes_since_switch, intersection_queues, traffic_lights,
                    intersection_timers, time_step, active_vehicles, moved_vehicles >>

UpdateVehiclesTime ==
    /\ pc = "time"
    /\ vehicles' = UpdateTimes(grid_size, intersection_queues, vehicles)
    /\ pre_queues' = intersection_queues
    /\ pre_vehicles' = vehicles
    /\ pc' = "generate"
    /\ UNCHANGED scheduler_vars
    /\ UNCHANGED << grid_size, p1, town, selection_vars, passes_since_switch, intersection_queues, traffic_lights,
                    intersection_timers, time_step, active_vehicles, moved_vehicles >>

\* -------------------------------------------- Simulation.generate_vehicles
\* What the draws at one intersection come to: no vehicle (<< >>) or the
\* path of the new vehicle, to a destination other than the intersection.
\* Mutant of SpawnOptions: the destination drawn may be the intersection itself.
SpawnOptions_AnyDestination(g, s) ==
    (IF p1 < 10 THEN { << >> } ELSE { })
      \cup (IF p1 > 0 THEN UNION { PathTable[g][s][t] : t \in SpawnDests(g) } ELSE { })

SpawnOptions(g, s) ==
    (IF p1 < 10 THEN { << >> } ELSE { })
      \cup (IF p1 > 0 THEN UNION { PathTable[g][s][t] : t \in SpawnDests(g) \ { s } } ELSE { })

RECURSIVE Generate(_, _, _, _)
\* the loops over rows and cols; st = [q: the queues, v: the vehicles]
Generate(g, st, choice, k) ==
    IF k > Len(PosSeq(g)) THEN st
    ELSE LET pos == PosSeq(g)[k]
         IN  IF pos \in DOMAIN choice /\ choice[pos] # << >>
             THEN LET path == choice[pos]
                      vehicle == NewVehicle(pos, path[Len(path)], g, path)
                      id == Len(st.v) + 1
                  IN  Generate(g,
                               [ q |-> add_vehicle(g, st.q, pos, vehicle, id),
                                 v |-> Append(st.v, vehicle) ],
                               choice, k + 1)
             ELSE Generate(g, st, choice, k + 1)

GenerateVehicles ==
    /\ pc = "generate"
    /\ \E choice \in [ SpawnSites(grid_size) ->
                         UNION { SpawnOptions(grid_size, s) : s \in SpawnSites(grid_size) } ] :
         /\ \A s \in SpawnSites(grid_size) : choice[s] \in SpawnOptions(grid_size, s)
         /\ Len(vehicles)
              + Cardinality({ s \in SpawnSites(grid_size) : choice[s] # << >> })
              <= MaxVehicles
         /\ LET st == Generate(grid_size, [ q |-> intersection_queues, v |-> vehicles ],
                               choice, 1)
            IN  /\ intersection_queues' = st.q
                /\ vehicles' = st.v
    /\ pre_queues' = intersection_queues
    /\ pre_vehicles' = vehicles
    /\ pc' = "remove"
    /\ UNCHANGED scheduler_vars
    /\ UNCHANGED << grid_size, p1, town, selection_vars, passes_since_switch, traffic_lights, intersection_timers, time_step,
                    active_vehicles, moved_vehicles >>

\* generate_vehicles at an intersection that has no other to go to: the draw
\* against p1 succeeds, every (dest_row, dest_col) drawn equals (i, j) and
\* the loop "while True" has no way out.
DestinationSearch ==
    /\ pc = "generate"
    /\ p1 > 0
    /\ \E s \in SpawnSites(grid_size) : Positions(grid_size) \ { s } = { }
    /\ pre_queues' = intersection_queues
    /\ pre_vehicles' = vehicles
    /\ pc' = "while True"
    /\ UNCHANGED scheduler_vars
    /\ UNCHANGED << grid_size, p1, town, selection_vars, passes_since_switch, intersection_queues, traffic_lights,
                    intersection_timers, vehicles, time_step, active_vehicles,
                    moved_vehicles >>

\* ---------------------------------------------- Simulation.remove_vehicles
RECURSIVE RemoveArrived(_, _, _, _, _)
\* for vehicle in vehicles_to_remove: self.grid.remove_vehicle(pos, vehicle)
RemoveArrived(g, q, v, pos, list) ==
    IF list = << >> THEN q
    ELSE RemoveArrived(g,
                       IF has_reached_destination(v[Head(list)])
                       THEN remove_vehicle(g, q, pos, v[Head(list)], Head(list))
                       ELSE q,
                       v, pos, Tail(list))

\* the loop over the four directions at pos; remove_vehicle(pos, ...) only
\* touches the queues of pos
RemoveAt(g, q, v, pos) ==
    LET q1 == RemoveArrived(g, q, v, pos, q[pos][NORTH])
        q2 == RemoveArrived(g, q1, v, pos, q1[pos][SOUTH])
        q3 == RemoveArrived(g, q2, v, pos, q2[pos][EAST])
    IN  RemoveArrived(g, q3, v, pos, q3[pos][WEST])

RemoveVehicles ==
    /\ pc = "remove"
    /\ intersection_queues' =
         [ p \in Positions(grid_size) |->
             RemoveAt(grid_size, intersection_queues, vehicles, p)[p] ]
    /\ pre_queues' = intersection_queues
    /\ pre_vehicles' = vehicles
    /\ pc' = "count"
    /\ UNCHANGED scheduler_vars
    /\ UNCHANGED << grid_size, p1, town, selection_vars, passes_since_switch, traffic_lights, intersection_timers, vehicles,
                    time_step, active_vehicles, moved_vehicles >>

\* ------------------------------------------ Simulation.step, its last lines
\* Mutant of FinishStep: the lights are put back to HORIZONTAL.
FinishStep_ResetLights ==
    /\ pc = "count"
    /\ active_vehicles' = Cardinality(QueueEntries(grid_size, intersection_queues))
    /\ time_step' = time_step + 1
    /\ traffic_lights' = InitialLights(grid_size)
    /\ pc' = "controller"
    /\ UNCHANGED scheduler_vars
    /\ UNCHANGED << grid_size, p1, town, selection_vars, passes_since_switch, intersection_queues,
                    intersection_timers, vehicles, moved_vehicles,
                    pre_queues, pre_vehicles >>

\* active_vehicles = sum of the queue lengths; time_step += 1
FinishStep ==
    /\ pc = "count"
    /\ active_vehicles' = Cardinality(QueueEntries(grid_size, intersection_queues))
    /\ time_step' = time_step + 1
    /\ pc' = "controller"
    /\ UNCHANGED scheduler_vars
    /\ UNCHANGED << grid_size, p1, town, selection_vars, passes_since_switch, intersection_queues, traffic_lights,
                    intersection_timers, vehicles, moved_vehicles,
                    pre_queues, pre_vehicles >>

Next ==
    \/ ControllerUpdate
    \/ MoveVehicles
    \/ UpdateVehiclesTime
    \/ GenerateVehicles
    \/ DestinationSearch
    \/ RemoveVehicles
    \/ FinishStep

Spec == Init /\ [][Next]_vars

\* ------------------------------------- SimpleController and its schedulers
\* SimpleController.__init__(grid, switch_interval = 10): the interval of the
\* 'simple' scheduler.
switch_interval == 10

\* The keys of SimpleController.schedulers.
schedulers == { "simple", "density", "adaptive", "independent" }

\* The names set_scheduler is called with, and scheduler_name.lower().
SchedulerNames == schedulers \cup { "Adaptive", "fixed" }
lower(scheduler_name) == IF scheduler_name = "Adaptive" THEN "adaptive" ELSE scheduler_name

\* The controller: the scheduler in use and the timing dicts of the schedulers.
Controller ==
    [ current_scheduler |-> current_scheduler,
      current_green_time |-> current_green_time,
      intersection_timers |-> intersection_timers ]

\* Mutant of set_scheduler: the name is looked up as written.
set_scheduler_CaseSensitive(c, scheduler_name) ==
    IF scheduler_name \in schedulers
    THEN [ current_scheduler |-> scheduler_name,
           current_green_time |->
               IF scheduler_name \in { "density", "adaptive" }
               THEN [ p \in {} |-> 0 ] ELSE c.current_green_time,
           intersection_timers |->
               IF scheduler_name = "independent"
               THEN [ p \in {} |-> 0 ] ELSE c.intersection_timers ]
    ELSE c

\* Mutant of set_scheduler: the timing dicts are kept.
set_scheduler_KeepsTiming(c, scheduler_name) ==
    IF lower(scheduler_name) \in schedulers
    THEN [ c EXCEPT !.current_scheduler = lower(scheduler_name) ]
    ELSE c

\* SimpleController.set_scheduler on the controller c.  A recognised name
\* selects the scheduler and empties the timing dicts it has; there is no
\* else branch.
set_scheduler(c, scheduler_name) ==
    IF lower(scheduler_name) \in schedulers
    THEN [ current_scheduler |-> lower(scheduler_name),
           current_green_time |->
               IF lower(scheduler_name) \in { "density", "adaptive" }
               THEN [ p \in {} |-> 0 ] ELSE c.current_green_time,
           intersection_timers |->
               IF lower(scheduler_name) = "independent"
               THEN [ p \in {} |-> 0 ] ELSE c.intersection_timers ]
    ELSE c

\* SimpleController.get_current_scheduler
get_current_scheduler(c) ==
    IF c.current_scheduler \in schedulers THEN c.current_scheduler ELSE "unknown"

\* the last tick before whose step set_scheduler is called
SetTimeBound == IF SpawnsVehicles THEN MaxSetTime ELSE MaxIdleSetTime

\* set_scheduler(scheduler_name), called between two steps
SetScheduler ==
    /\ pc = "controller"
    /\ time_step <= SetTimeBound
    /\ \E scheduler_name \in SchedulerNames :
         LET c == set_scheduler(Controller, scheduler_name)
         IN  /\ current_scheduler' = c.current_scheduler
             /\ current_green_time' = c.current_green_time
             /\ intersection_timers' = c.intersection_timers
    /\ UNCHANGED << grid_size, p1, town, selection_vars, passes_since_switch, intersection_queues, traffic_lights, vehicles, time_step,
                    active_vehicles, pc, moved_vehicles, pre_queues, pre_vehicles >>

\* SimpleScheduler.schedule: light.set_state(...) is called for the first
\* intersection of grid_state; TrafficLight has no set_state, the call raises
\* AttributeError and the step ends there.
SimpleSchedule ==
    /\ pc = "controller"
    /\ ~paused
    /\ current_scheduler = "simple"
    /\ time_step < TimeBound
    /\ pre_queues' = intersection_queues
    /\ pre_vehicles' = vehicles
    /\ pc' = "AttributeError"
    /\ UNCHANGED << grid_size, p1, town, selection_vars, passes_since_switch, intersection_queues, traffic_lights, intersection_timers,
                    vehicles, time_step, active_vehicles, moved_vehicles, scheduler_vars >>

density_min_green_time == 5
density_max_green_time == 20

\* should_switch of DensityBasedScheduler.schedule; elapsed is
\* current_green_time[pos] after its increment.  v > h * 1.5 is 2v > 3h.
density_should_switch(q, light, elapsed, pos) ==
    IF elapsed >= density_max_green_time THEN TRUE
    ELSE IF elapsed >= density_min_green_time
    THEN IF is_green(light, HORIZONTAL)
         THEN 2 * vertical_count(q, pos) > 3 * horizontal_count(q, pos)
         ELSE 2 * horizontal_count(q, pos) > 3 * vertical_count(q, pos)
    ELSE FALSE

\* current_green_time after the loop has incremented it for the first n
\* intersections of grid_state
ElapsedAfter(g, elapsed, n) ==
    [ p \in DOMAIN elapsed \cup { PosSeq(g)[j] : j \in 1 .. n } |->
        IF \E j \in 1 .. n : PosSeq(g)[j] = p THEN TimerOf(elapsed, p) + 1 ELSE elapsed[p] ]

\* The loop of a density or adaptive pass; raising holds the places in
\* grid_state of the intersections whose should_switch is true.  At the
\* first of them light.set_state(...) raises AttributeError: the counter of
\* that intersection is not reset and the later ones are not reached.
SchedulePass(raising) ==
    /\ ~paused
    /\ time_step < TimeBound
    /\ IF raising = {}
       THEN /\ current_green_time' =
                 ElapsedAfter(grid_size, current_green_time, grid_size[1] * grid_size[2])
            /\ passes_since_switch' = PassesAfter(traffic_lights)
            /\ pc' = "move"
       ELSE /\ current_green_time' =
                 ElapsedAfter(grid_size, current_green_time,
                              CHOOSE k \in raising : \A j \in raising : k <= j)
            /\ UNCHANGED passes_since_switch
            /\ pc' = "AttributeError"
    /\ pre_queues' = intersection_queues
    /\ pre_vehicles' = vehicles
    /\ UNCHANGED << grid_size, p1, town, selection_vars, intersection_queues, traffic_lights, intersection_timers,
                    vehicles, time_step, active_vehicles, moved_vehicles, current_scheduler >>

\* DensityBasedScheduler.schedule
DensitySchedule ==
    /\ pc = "controller"
    /\ current_scheduler = "density"
    /\ SchedulePass({ k \in 1 .. grid_size[1] * grid_size[2] :
                        density_should_switch(intersection_queues,
                            traffic_lights[PosSeq(grid_size)[k]],
                            TimerOf(current_green_time, PosSeq(grid_size)[k]) + 1,
                            PosSeq(grid_size)[k]) })

adaptive_min_green_time == 5
adaptive_max_green_time == 30

\* Vehicle.get_waiting_time
get_waiting_time(v) == v.waiting_times[v.current_pos]

RECURSIVE waiting_sum(_, _)
\* sum(v.get_waiting_time() for v in list)
waiting_sum(v, list) ==
    IF list = << >> THEN 0
    ELSE get_waiting_time(v[Head(list)]) + waiting_sum(v, Tail(list))

\* twice h_score (v_score): wait * 1.5 + count of the queues d1 + d2 at pos
score_doubled(q, v, pos, d1, d2) ==
    3 * waiting_sum(v, q[pos][d1] \o q[pos][d2]) + 2 * Len(q[pos][d1] \o q[pos][d2])

\* should_switch of AdaptiveScheduler.schedule.  v_score > h_score * 1.3 is
\* 10 * (2 v_score) > 13 * (2 h_score).
adaptive_should_switch(q, v, light, elapsed, pos) ==
    IF elapsed >= adaptive_max_green_time THEN TRUE
    ELSE IF elapsed >= adaptive_min_green_time
    THEN IF is_green(light, HORIZONTAL)
         THEN 10 * score_doubled(q, v, pos, NORTH, SOUTH) > 13 * score_doubled(q, v, pos, EAST, WEST)
         ELSE 10 * score_doubled(q, v, pos, EAST, WEST) > 13 * score_doubled(q, v, pos, NORTH, SOUTH)
    ELSE FALSE

\* AdaptiveScheduler.schedule.  last_switch_time is written only after
\* set_state has returned and is never read.
AdaptiveSchedule ==
    /\ pc = "controller"
    /\ current_scheduler = "adaptive"
    /\ SchedulePass({ k \in 1 .. grid_size[1] * grid_size[2] :
                        adaptive_should_switch(intersection_queues, vehicles,
                            traffic_lights[PosSeq(grid_size)[k]],
                            TimerOf(current_green_time, PosSeq(grid_size)[k]) + 1,
                            PosSeq(grid_size)[k]) })

\* A simulation whose scheduler is chosen with set_scheduler between steps.
SchedulerNext ==
    \/ SetScheduler
    \/ SimpleSchedule
    \/ DensitySchedule
    \/ AdaptiveSchedule
    \/ ControllerUpdate
    \/ MoveVehicles
    \/ UpdateVehiclesTime
    \/ GenerateVehicles
    \/ DestinationSearch
    \/ RemoveVehicles
    \/ FinishStep

\* The runs in which set_scheduler is called are followed on the grids other
\* than the largest.
SchedulerInit == Init /\ grid_size # << 4, 4 >>

SchedulerSpec == SchedulerInit /\ [][SchedulerNext]_vars

\* ------------------------------------------- a Vehicle driven on its own
\* Vehicle(start, destination, grid_size) is constructed and move() is called
\* on it again and again, as src/tests/test_vehicle.py does.  Here pc names
\* the last call made, vehicles holds the one Vehicle and pre_vehicles what
\* it was before the last call; the grid stays as constructed.
VehicleGridSizes == { <<2, 3>>, <<3, 3>>, <<4, 4>>, <<10, 10>> }

\* The (start, destination) pairs a Vehicle is constructed with: every pair
\* on the small grids, the pairs of the tests on the 10 x 10 grid.
VehicleTrips(g) ==
    IF g = <<10, 10>>
    THEN { << <<5, 8>>, <<5, 1>> >>, << <<8, 5>>, <<1, 5>> >>, << <<9, 9>>, <<0, 0>> >> }
    ELSE Positions(g) \X Positions(g)

VehicleInit ==
    /\ grid_size \in VehicleGridSizes
    /\ p1 = 1
    /\ passes_since_switch = NoPasses(grid_size)
    /\ paused = FALSE
    /\ selected_intersection = NoIntersection
    /\ selected_vehicle = NoVehicle
    /\ town = "None"
    /\ intersection_queues = EmptyQueues(grid_size)
    /\ traffic_lights = InitialLights(grid_size)
    /\ intersection_timers = [ p \in {} |-> 0 ]
    /\ vehicles = << >>
    /\ time_step = 0
    /\ active_vehicles = 0
    /\ pc = "no vehicle"
    /\ moved_vehicles = {}
    /\ pre_queues = EmptyQueues(grid_size)
    /\ pre_vehicles = << >>
    /\ current_scheduler = "independent"
    /\ current_green_time = [ p \in {} |-> 0 ]

\* vehicle = Vehicle(start, destination, grid_size)
ConstructVehicle ==
    /\ pc = "no vehicle"
    /\ \E trip \in VehicleTrips(grid_size) :
         \E path \in ShortestPaths(grid_size, trip[1], trip[2]) :
            vehicles' = << NewVehicle(trip[1], trip[2], grid_size, path) >>
    /\ pre_vehicles' = vehicles
    /\ pc' = "constructed"
    /\ UNCHANGED scheduler_vars
    /\ UNCHANGED << grid_size, p1, town, selection_vars, passes_since_switch, intersection_queues, traffic_lights, intersection_timers,
                    time_step, active_vehicles, moved_vehicles, pre_queues >>

\* vehicle.move()
MoveCall ==
    /\ pc # "no vehicle"
    /\ vehicles' = << move(vehicles[1]) >>
    /\ pre_vehicles' = vehicles
    /\ pc' = IF has_reached_destination(vehicles[1]) THEN "moved at destination" ELSE "moved"
    /\ UNCHANGED scheduler_vars
    /\ UNCHANGED << grid_size, p1, town, selection_vars, passes_since_switch, intersection_queues, traffic_lights, intersection_timers,
                    time_step, active_vehicles, moved_vehicles, pre_queues >>

VehicleNext ==
    \/ ConstructVehicle
    \/ MoveCall

VehicleSpec == VehicleInit /\ [][VehicleNext]_vars

\* --------------------------------- the IndependentScheduler driven on its own
\* SimpleController.update is called again and again with the independent
\* scheduler on a grid of two intersections, and between two calls the queues
\* it reads change to any lengths up to MaxLoad: the scheduler only takes
\* len() of the queues, so what they hold is left open ("vehicle").  Here pc
\* is "controller" before a call and "move" after it.
MaxLoad == 2

ScheduleGrid == << 1, 2 >>

Waiting(n) == [ k \in 1 .. n |-> "vehicle" ]

\* the values of grid.intersection_queues the scheduler is called with
GridStates ==
    { [ p \in Positions(ScheduleGrid) |->
          IF p = << 0, 0 >>
          THEN [ d \in Directions |->
                   IF d = EAST THEN Waiting(e) ELSE IF d = NORTH THEN Waiting(n) ELSE << >> ]
          ELSE [ d \in Directions |-> IF d = WEST THEN Waiting(w) ELSE << >> ] ] :
      e \in 0 .. MaxLoad, n \in 0 .. MaxLoad, w \in 0 .. 1 }

ScheduleInit ==
    /\ grid_size = ScheduleGrid
    /\ p1 = 1
    /\ passes_since_switch = NoPasses(grid_size)
    /\ paused = FALSE
    /\ selected_intersection = NoIntersection
    /\ selected_vehicle = NoVehicle
    /\ town = "None"
    /\ intersection_queues = EmptyQueues(grid_size)
    /\ traffic_lights = InitialLights(grid_size)
    /\ intersection_timers = [ p \in {} |-> 0 ]
    /\ vehicles = << >>
    /\ time_step = 0
    /\ active_vehicles = 0
    /\ pc = "controller"
    /\ moved_vehicles = {}
    /\ pre_queues = EmptyQueues(grid_size)
    /\ pre_vehicles = << >>
    /\ current_scheduler = "independent"
    /\ current_green_time = [ p \in {} |-> 0 ]

\* the queues change between two calls of the scheduler
QueuesChange ==
    /\ pc = "move"
    /\ intersection_queues' \in GridStates
    /\ pre_queues' = intersection_queues
    /\ pc' = "controller"
    /\ UNCHANGED scheduler_vars
    /\ UNCHANGED << grid_size, p1, town, selection_vars, passes_since_switch, traffic_lights, intersection_timers,
                    vehicles, time_step, active_vehicles, moved_vehicles, pre_vehicles >>

IndependentNext ==
    \/ ControllerUpdate
    \/ QueuesChange

\* The loop that drives the simulation never stops calling the scheduler
\* (main: while True: sim.step()).
IndependentSpec == ScheduleInit /\ [][IndependentNext]_vars /\ WF_vars(IndependentNext)

\* ================================================================ claims
\* After move_vehicles pre_queues and pre_vehicles hold the queues and the
\* vehicles of the start of the tick's movement resolution.
AfterMove == pc = "time"
AfterAgeing == pc = "generate"

Slots == Positions(grid_size) \X Directions
StraightOrLeft == { "straight", "left" }

\* the turn type of the vehicle at the start of the tick
TurnBefore(id) == get_turn_type(pre_vehicles[id])

\* the vehicle went one step along its path during the last phase
Advanced(id) ==
    /\ vehicles[id].current_path_index = pre_vehicles[id].current_path_index + 1
    /\ vehicles[id].current_pos = PathAt(pre_vehicles[id], pre_vehicles[id].current_path_index + 1)

Stayed(id) == vehicles[id] = pre_vehicles[id]

\* the light of pos lets the queue dir go
IsGreenFor(pos, dir) ==
    \/ dir \in { EAST, WEST } /\ traffic_lights[pos] = HORIZONTAL
    \/ dir \in { NORTH, SOUTH } /\ traffic_lights[pos] = VERTICAL

\* the straight/left vehicles that left a queue of pos in the tick
StraightLeftMovers(pos) ==
    { id \in UNION { SeqSet(pre_queues[pos][d]) : d \in Directions } :
        TurnBefore(id) \in StraightOrLeft /\ Advanced(id) }

RightMovers(pos) ==
    { id \in UNION { SeqSet(pre_queues[pos][d]) : d \in Directions } :
        TurnBefore(id) = "right" /\ Advanced(id) }

\* C1: every vehicle that is in a queue at the start of the tick and turns
\* right has left that queue and gone one path step after move_vehicles,
\* wherever it stood in the queue and whatever the light shows.
C1_RightTurnsAllMove ==
    AfterMove =>
        \A s \in Slots : \A k \in 1 .. Len(pre_queues[s[1]][s[2]]) :
            LET id == pre_queues[s[1]][s[2]][k]
            IN  TurnBefore(id) = "right" =>
                    /\ ~InSeq(intersection_queues[s[1]][s[2]], id)
                    /\ Advanced(id)
                    /\ id \in moved_vehicles

\* a right-turning vehicle behind a waiting vehicle of a red queue has gone
C1_Witness ==
    /\ AfterMove
    /\ \E s \in Slots : \E k \in 2 .. Len(pre_queues[s[1]][s[2]]) :
          /\ ~IsGreenFor(s[1], s[2])
          /\ TurnBefore(pre_queues[s[1]][s[2]][k]) = "right"
          /\ Advanced(pre_queues[s[1]][s[2]][k])
          /\ Stayed(pre_queues[s[1]][s[2]][1])

C3_RedAxisWaits ==
    AfterMove =>
        \A s \in Slots : \A id \in SeqSet(pre_queues[s[1]][s[2]]) :
            (TurnBefore(id) \in StraightOrLeft /\ ~Stayed(id)) => IsGreenFor(s[1], s[2])

\* straight/left vehicles wait on both axes; one of the green axis goes and
\* the one of the red axis is still in its queue
C3_Witness ==
    /\ AfterMove
    /\ \E pos \in Positions(grid_size) : \E d1, d2 \in Directions :
          /\ IsGreenFor(pos, d1) /\ ~IsGreenFor(pos, d2)
          /\ \E a \in SeqSet(pre_queues[pos][d1]) :
                TurnBefore(a) \in StraightOrLeft /\ Advanced(a)
          /\ \E b \in SeqSet(pre_queues[pos][d2]) :
                /\ TurnBefore(b) \in StraightOrLeft
                /\ Stayed(b)
                /\ InSeq(intersection_queues[pos][d2], b)

Keep(seq, set) == SelectSeq(seq, LAMBDA x : x \in set)

\* C4: the vehicles movement resolution leaves in a queue keep their
\* relative order.
C4_OrderKept ==
    AfterMove =>
        \A s \in Slots :
            Keep(intersection_queues[s[1]][s[2]], SeqSet(pre_queues[s[1]][s[2]]))
              = Keep(pre_queues[s[1]][s[2]], SeqSet(intersection_queues[s[1]][s[2]]))

\* a queue of at least three loses a vehicle and keeps at least two
C4_Witness ==
    /\ AfterMove
    /\ \E s \in Slots :
          /\ Len(pre_queues[s[1]][s[2]]) >= 3
          /\ \E id \in SeqSet(pre_queues[s[1]][s[2]]) :
                ~InSeq(intersection_queues[s[1]][s[2]], id)
          /\ Len(Keep(pre_queues[s[1]][s[2]], SeqSet(intersection_queues[s[1]][s[2]]))) >= 2

IsPrefix(a, b) == Len(a) <= Len(b) /\ SubSeq(b, 1, Len(a)) = a

\* C5: a vehicle that enters a queue (by moving in or by being spawned)
\* stands behind every vehicle already there, and a straight/left vehicle
\* that advances had only right-turning vehicles in front of it.
C5_Fifo ==
    /\ AfterMove =>
         \A s \in Slots :
            /\ IsPrefix(Keep(pre_queues[s[1]][s[2]], SeqSet(intersection_queues[s[1]][s[2]])),
                        intersection_queues[s[1]][s[2]])
            /\ \A k \in 1 .. Len(pre_queues[s[1]][s[2]]) :
                  LET id == pre_queues[s[1]][s[2]][k]
                  IN  (TurnBefore(id) \in StraightOrLeft /\ ~Stayed(id)) =>
                          \A j \in 1 .. k - 1 :
                              TurnBefore(pre_queues[s[1]][s[2]][j]) = "right"
    /\ pc = "remove" =>
         \A s \in Slots : IsPrefix(pre_queues[s[1]][s[2]], intersection_queues[s[1]][s[2]])

\* a green queue [straight, left]: 'straight' has left and 'left' remains
C5_Witness ==
    /\ AfterMove
    /\ \E s \in Slots :
          /\ IsGreenFor(s[1], s[2])
          /\ Len(pre_queues[s[1]][s[2]]) = 2
          /\ TurnBefore(pre_queues[s[1]][s[2]][1]) = "straight"
          /\ TurnBefore(pre_queues[s[1]][s[2]][2]) = "left"
          /\ Advanced(pre_queues[s[1]][s[2]][1])
          /\ intersection_queues[s[1]][s[2]] = << pre_queues[s[1]][s[2]][2] >>

\* the queue held a straight/left vehicle at the start of the tick
HasStraightLeft(pos, d) ==
    \E id \in SeqSet(pre_queues[pos][d]) : TurnBefore(id) \in StraightOrLeft

MoversFrom(pos, d) == { id \in SeqSet(pre_queues[pos][d]) : Advanced(id) }

EntriesOf(id) ==
    { e \in QueueEntries(grid_size, intersection_queues) :
        intersection_queues[e[1]][e[2]][e[3]] = id }

IsQueued(id) == EntriesOf(id) # {}

\* C7: in every state a vehicle stands in at most one queue, at most once,
\* and that queue belongs to the intersection of its current position.
C7_OneQueuePerVehicle ==
    \A id \in VehicleIds :
        /\ Cardinality(EntriesOf(id)) <= 1
        /\ \A e \in EntriesOf(id) : e[1] = vehicles[id].current_pos

\* two vehicles that have moved stand in queues of different intersections
C7_Witness ==
    \E a, b \in VehicleIds :
        /\ a # b
        /\ vehicles[a].current_path_index > 0 /\ vehicles[b].current_path_index > 0
        /\ IsQueued(a) /\ IsQueued(b)
        /\ vehicles[a].current_pos # vehicles[b].current_pos

\* C8: no queue ever holds a vehicle that has reached its destination, and
\* between ticks active_vehicles counts exactly the vehicles still under way.
C8_ArrivedNotQueued ==
    /\ \A id \in VehicleIds : has_reached_destination(vehicles[id]) => ~IsQueued(id)
    /\ pc = "controller" =>
          active_vehicles
            = Cardinality({ id \in VehicleIds : ~has_reached_destination(vehicles[id]) })

\* between ticks: a vehicle has arrived by moving and another is under way
C8_Witness ==
    /\ pc = "controller"
    /\ active_vehicles >= 1
    /\ \E id \in VehicleIds :
          /\ has_reached_destination(vehicles[id])
          /\ vehicles[id].distance_traveled > 0

\* C9 as claimed: a queued vehicle stands in the queue its own
\* get_next_direction names.
C9_QueueIsNextDirection ==
    \A e \in QueueEntries(grid_size, intersection_queues) :
        e[2] = get_next_direction(vehicles[intersection_queues[e[1]][e[2]][e[3]]])

WaitingHere(v) == v.waiting_times[v.current_pos]

\* C10 as claimed: ageing adds one to the waiting time of a queued vehicle
\* that did not advance in the tick and nothing to one that advanced.
C10_OnlyWaitingVehiclesAge ==
    AfterAgeing =>
        \A id \in 1 .. Len(pre_vehicles) :
            IsQueued(id) =>
                IF id \in moved_vehicles
                THEN vehicles[id].waiting_times = pre_vehicles[id].waiting_times
                ELSE WaitingHere(vehicles[id]) = WaitingHere(pre_vehicles[id]) + 1

\* C10 amended: ageing adds exactly one to the waiting time, at its current
\* position, of every vehicle that is queued after movement resolution,
\* whether it advanced in the tick or not, and changes nothing else.
C10_EveryQueuedVehicleAges ==
    AfterAgeing =>
        \A id \in 1 .. Len(pre_vehicles) :
            IF IsQueued(id)
            THEN /\ vehicles[id].waiting_times =
                      [ pre_vehicles[id].waiting_times
                          EXCEPT ![pre_vehicles[id].current_pos] = @ + 1 ]
                 /\ vehicles[id].steps_taken = pre_vehicles[id].steps_taken + 1
                 /\ vehicles[id].current_pos = pre_vehicles[id].current_pos
            ELSE vehicles[id] = pre_vehicles[id]

\* a vehicle that advanced in the tick and is queued at its new position has
\* been aged there, next to a vehicle that waited
C10_Witness ==
    /\ AfterAgeing
    /\ \E id \in moved_vehicles :
          /\ IsQueued(id)
          /\ vehicles[id].current_path_index > 0
          /\ WaitingHere(vehicles[id]) = WaitingHere(pre_vehicles[id]) + 1
    /\ \E id \in VehicleIds \ moved_vehicles :
          IsQueued(id) /\ WaitingHere(vehicles[id]) = WaitingHere(pre_vehicles[id]) + 1

\* a vehicle as Vehicle.__init__ leaves it
IsFresh(v) ==
    /\ v.current_path_index = 0
    /\ v.current_pos = v.path[1]
    /\ v.steps_taken = 0
    /\ v.distance_traveled = 0
    /\ \A p \in DOMAIN v.waiting_times : v.waiting_times[p] = 0

\* the vehicle v one path step earlier
OneStepBack(v) ==
    [ v EXCEPT !.current_path_index = v.current_path_index - 1,
               !.current_pos = v.path[v.current_path_index] ]

\* C11: the phases of a step follow one another in the order scheduler,
\* movement, ageing, spawning, removal, and then the tick counter goes up by
\* exactly one; movement does not touch the lights the scheduler has just
\* set, and a vehicle spawned in a tick is as constructed (not moved, not
\* aged) until the tick is over.  (On a grid of one intersection the
\* spawning phase may never return; no later phase runs then.)
C11_PhaseOrder ==
    [][ /\ pc' = CASE pc = "controller" -> "move"
                   [] pc = "move" -> "time"
                   [] pc = "time" -> "generate"
                   [] pc = "generate" -> IF pc' = "while True" THEN "while True" ELSE "remove"
                   [] pc = "remove" -> "count"
                   [] pc = "count" -> "controller"
        /\ time_step' = IF pc = "count" THEN time_step + 1 ELSE time_step
        /\ pc = "move" => traffic_lights' = traffic_lights
        /\ pc = "generate" =>
              /\ SubSeq(vehicles', 1, Len(vehicles)) = vehicles
              /\ \A id \in Len(vehicles) + 1 .. Len(vehicles') : IsFresh(vehicles'[id])
        /\ pc \in { "remove", "count" } => vehicles' = vehicles ]_vars

\* in one tick a light went to VERTICAL, a straight/left vehicle of its
\* North or South queue advanced and was aged, and a vehicle spawned
\* afterwards is as constructed
C11_Witness ==
    /\ pc = "remove"
    /\ Len(vehicles) > Len(pre_vehicles)
    /\ IsFresh(vehicles[Len(vehicles)])
    /\ \E id \in moved_vehicles :
          LET was == OneStepBack(vehicles[id])
          IN  /\ vehicles[id].steps_taken > 0
              /\ get_turn_type(was) \in StraightOrLeft
              /\ VehicleQueue(grid_size, was.current_pos, was) \in { NORTH, SOUTH }
              /\ traffic_lights[was.current_pos] = VERTICAL
              /\ intersection_timers[was.current_pos] = 0

\* one orthogonal step on the torus
IsOrthStep(g, a, b) ==
    \/ a[2] = b[2] /\ (b[1] = (a[1] + 1) % g[1] \/ a[1] = (b[1] + 1) % g[1]) /\ a[1] # b[1]
    \/ a[1] = b[1] /\ (b[2] = (a[2] + 1) % g[2] \/ a[2] = (b[2] + 1) % g[2]) /\ a[2] # b[2]

\* C12 as claimed: the path of a vehicle starts at its start, ends at its
\* destination and goes by single orthogonal steps, never diagonally.
C12_PathStepsOrthogonal ==
    \A id \in VehicleIds :
        LET v == vehicles[id]
        IN  /\ v.current_path_index = 0 => v.path[1] = v.current_pos
            /\ v.path[Len(v.path)] = v.destination
            /\ \A k \in 1 .. Len(v.path) - 1 : IsOrthStep(v.grid_size, v.path[k], v.path[k + 1])

\* the least number of orthogonal unit steps from s to t on the torus
TorusSteps(g, s, t) ==
    Min2(Abs(t[1] - s[1]), g[1] - Abs(t[1] - s[1]))
      + Min2(Abs(t[2] - s[2]), g[2] - Abs(t[2] - s[2]))

CrossesColumnBoundary(path, cols) ==
    \E k \in 1 .. Len(path) - 1 : { path[k][2], path[k + 1][2] } = { 0, cols - 1 }

CrossesRowBoundary(path, rows) ==
    \E k \in 1 .. Len(path) - 1 : { path[k][1], path[k + 1][1] } = { 0, rows - 1 }

\* C13: no route of orthogonal unit steps on the torus is shorter than the
\* path; when the wrapped way along a row or a column is the shorter one the
\* path crosses the boundary; on the 10 x 10 grid (5,8) to (5,1) takes at
\* most 3 steps through column 9 and (8,5) to (1,5) at most 3 through row 9.
C13_PathMinimal ==
    \A id \in VehicleIds :
        LET v == vehicles[id]
            g == v.grid_size
            s == v.path[1]
            t == v.destination
        IN  /\ Len(v.path) - 1 <= TorusSteps(g, s, t)
            /\ (s[1] = t[1] /\ Abs(t[2] - s[2]) > g[2] - Abs(t[2] - s[2]))
                  => CrossesColumnBoundary(v.path, g[2])
            /\ (s[2] = t[2] /\ Abs(t[1] - s[1]) > g[1] - Abs(t[1] - s[1]))
                  => CrossesRowBoundary(v.path, g[1])
            /\ (g = <<10, 10>> /\ s = <<5, 8>> /\ t = <<5, 1>>)
                  => (Len(v.path) <= 4 /\ InSeq(v.path, <<5, 9>>))
            /\ (g = <<10, 10>> /\ s = <<8, 5>> /\ t = <<1, 5>>)
                  => (Len(v.path) <= 4 /\ InSeq(v.path, <<9, 5>>))

\* the vehicle from (5,8) to (5,1) of the 10 x 10 grid has been constructed
\* and its path goes through (5,9)
C13_Witness ==
    /\ pc = "constructed"
    /\ grid_size = <<10, 10>>
    /\ vehicles[1].current_pos = <<5, 8>>
    /\ vehicles[1].destination = <<5, 1>>
    /\ InSeq(vehicles[1].path, <<5, 9>>)

\* C14: a move() call on a vehicle that has reached its destination leaves
\* its position, its path index and its distance as they were, and
\* get_next_position() of such a vehicle is its current position.
C14_MoveIdempotentAtDestination ==
    /\ pc = "moved at destination" =>
          /\ vehicles[1].current_pos = pre_vehicles[1].current_pos
          /\ vehicles[1].current_path_index = pre_vehicles[1].current_path_index
          /\ vehicles[1].distance_traveled = pre_vehicles[1].distance_traveled
    /\ \A id \in VehicleIds :
          has_reached_destination(vehicles[id])
            => get_next_position(vehicles[id]) = vehicles[id].current_pos

\* move() has been called on a vehicle that had travelled to its destination
C14_Witness ==
    /\ pc = "moved at destination"
    /\ vehicles[1].distance_traveled > 0
    /\ has_reached_destination(pre_vehicles[1])

\* the position comes before the other in the loop over the intersections
ProcessedBefore(a, b) == a[1] < b[1] \/ (a[1] = b[1] /\ a[2] < b[2])

\* C15: the path index of a vehicle never goes down, and it goes up by at
\* most one in a tick: only movement resolution changes it, by 0 or 1, also
\* for a vehicle that moved into an intersection processed later.
C15_IndexAdvancesOncePerTick ==
    \A id \in 1 .. Len(pre_vehicles) :
        vehicles[id].current_path_index - pre_vehicles[id].current_path_index
            \in (IF AfterMove THEN { 0, 1 } ELSE { 0 })

\* a vehicle advanced into an intersection that is processed later, where it
\* stands alone at a green light (or turns right) and no other straight/left
\* vehicle advanced: only moved_vehicles kept it from advancing again
C15_Witness ==
    /\ AfterMove
    /\ \E id \in moved_vehicles :
          LET v == vehicles[id]
              d == VehicleQueue(grid_size, v.current_pos, v)
          IN  /\ Advanced(id)
              /\ ~has_reached_destination(v)
              /\ ProcessedBefore(pre_vehicles[id].current_pos, v.current_pos)
              /\ intersection_queues[v.current_pos][d] = << id >>
              /\ StraightLeftMovers(v.current_pos) = {}
              /\ (get_turn_type(v) = "right" \/ IsGreenFor(v.current_pos, d))

\* C16 as claimed: with the wrap-normalised vectors (dx, dy) of the next
\* step and (dx_next, dy_next) of the step after it, get_turn_type is
\* 'straight' exactly when dx * dy_next - dy * dx_next is zero, 'right' when
\* it is negative and 'left' when it is positive.
C16_TurnTypeIsCrossProductSign ==
    \A id \in VehicleIds :
        LET v == vehicles[id]
        IN  v.current_path_index + 2 < Len(v.path) =>
              LET current == v.current_pos
                  next_pos == PathAt(v, v.current_path_index + 1)
                  next_next == PathAt(v, v.current_path_index + 2)
                  dx == WrapDelta(current[2], next_pos[2], v.grid_size[2])
                  dy == WrapDelta(current[1], next_pos[1], v.grid_size[1])
                  dx_next == WrapDelta(next_pos[2], next_next[2], v.grid_size[2])
                  dy_next == WrapDelta(next_pos[1], next_next[1], v.grid_size[1])
                  cross == dx * dy_next - dy * dx_next
              IN  get_turn_type(v) = (IF cross = 0 THEN "straight"
                                      ELSE IF cross < 0 THEN "right" ELSE "left")

FewerThanTwoWaypointsRemain(v) == v.current_path_index + 2 >= Len(v.path)

\* C17: get_turn_type is 'straight' for a vehicle at its destination or on
\* its last hop, so a vehicle on its last hop advances only from a queue of
\* the green axis.
C17_LastHopIsStraight ==
    /\ \A id \in VehicleIds :
          FewerThanTwoWaypointsRemain(vehicles[id]) => get_turn_type(vehicles[id]) = "straight"
    /\ AfterMove =>
          \A sl \in Slots : \A id \in SeqSet(pre_queues[sl[1]][sl[2]]) :
              (FewerThanTwoWaypointsRemain(pre_vehicles[id]) /\ ~Stayed(id))
                => IsGreenFor(sl[1], sl[2])

\* a vehicle that has turned before waits on its last hop at a red light
\* while another vehicle has arrived
C17_Witness ==
    /\ AfterMove
    /\ \E sl \in Slots : \E id \in SeqSet(pre_queues[sl[1]][sl[2]]) :
          /\ ~IsGreenFor(sl[1], sl[2])
          /\ pre_vehicles[id].current_path_index > 0
          /\ pre_vehicles[id].current_path_index + 2 = Len(pre_vehicles[id].path)
          /\ Stayed(id)
    /\ \E id \in VehicleIds : has_reached_destination(vehicles[id])

\* C18: each light shows green for exactly one of the two directions, and
\* switch() goes to the other direction, so that two switches lead back.
C18_ExactlyOneGreen ==
    \A p \in Positions(grid_size) :
        /\ is_green(traffic_lights[p], HORIZONTAL) # is_green(traffic_lights[p], VERTICAL)
        /\ ~is_green(switch(traffic_lights[p]), traffic_lights[p])
        /\ switch(switch(traffic_lights[p])) = traffic_lights[p]

\* the scheduler has switched a light and left another as it was
C18_Witness ==
    /\ pc = "move"
    /\ \E p, q \in Positions(grid_size) :
          /\ is_green(traffic_lights[p], VERTICAL)
          /\ intersection_timers[p] = 0
          /\ is_green(traffic_lights[q], HORIZONTAL)

\* C19: only the scheduler pass changes the phase of a light: movement,
\* ageing, spawning, removal and the end of the step leave every light as it
\* is, and so does TrafficLight.update.
C19_OnlySchedulerSwitches ==
    [][ /\ pc # "controller" => traffic_lights' = traffic_lights
        /\ \A p \in Positions(grid_size) :
              update(traffic_lights[p], "controller") = traffic_lights[p] ]_vars

\* a tick in which a light was switched has run to its end, with a vehicle
\* moved and a vehicle spawned
C19_Witness ==
    /\ pc = "count"
    /\ moved_vehicles # {}
    /\ \E p \in Positions(grid_size) : traffic_lights[p] = VERTICAL /\ intersection_timers[p] = 0
    /\ \E id \in VehicleIds : IsFresh(vehicles[id])

\* C20 as claimed: whichever recognised scheduler set_scheduler has selected,
\* every step runs to its end without an error.
C20_EveryStrategyRuns == pc # "AttributeError"

\* the phase the fixed-interval scheduler computes for tick t
SimplePhase(t) == IF (t \div switch_interval) % 2 = 0 THEN HORIZONTAL ELSE VERTICAL

\* C21 as claimed: once the 'simple' scheduler has made its pass of tick t,
\* the step goes on and every light shows HORIZONTAL when (t div N) mod 2 = 0
\* and VERTICAL otherwise.
C21_SimpleLockstep ==
    (current_scheduler = "simple" /\ pc # "controller") =>
        /\ pc # "AttributeError"
        /\ \A p \in Positions(grid_size) : traffic_lights[p] = SimplePhase(time_step)

\* a pass of the scheduler named name is being made in this step
PassOf(name) == pc = "controller" /\ current_scheduler = name /\ pc' # "controller"

\* the group that is red at pos holds more than 1.5 times the vehicles of
\* the group that is green
OpposingHeavier(pos) ==
    IF is_green(traffic_lights[pos], HORIZONTAL)
    THEN 2 * vertical_count(intersection_queues, pos) > 3 * horizontal_count(intersection_queues, pos)
    ELSE 2 * horizontal_count(intersection_queues, pos) > 3 * vertical_count(intersection_queues, pos)

\* C22 as claimed: a density pass leaves a light alone before 5 passes have
\* elapsed, switches it at the pass that brings the elapsed count to 5 or
\* more while the opposing group is heavier, and switches it at 20.
C22_DensitySwitchesWithinBounds ==
    [][ PassOf("density") =>
          \A p \in Positions(grid_size) :
             LET elapsed == TimerOf(current_green_time, p) + 1
             IN  /\ elapsed < density_min_green_time => traffic_lights'[p] = traffic_lights[p]
                 /\ (elapsed >= density_min_green_time /\ OpposingHeavier(p))
                        => traffic_lights'[p] = switch(traffic_lights[p])
                 /\ elapsed >= density_max_green_time
                        => traffic_lights'[p] = switch(traffic_lights[p]) ]_vars

\* twice the score of the green group and of the red group at pos:
\* queued vehicles + 1.5 x the sum of their waiting times here
CurrentScore(pos) ==
    IF is_green(traffic_lights[pos], HORIZONTAL)
    THEN score_doubled(intersection_queues, vehicles, pos, EAST, WEST)
    ELSE score_doubled(intersection_queues, vehicles, pos, NORTH, SOUTH)

OpposingScore(pos) ==
    IF is_green(traffic_lights[pos], HORIZONTAL)
    THEN score_doubled(intersection_queues, vehicles, pos, NORTH, SOUTH)
    ELSE score_doubled(intersection_queues, vehicles, pos, EAST, WEST)

\* C23 as claimed: an adaptive pass switches a light exactly when the elapsed
\* green time has reached 30, or has reached 5 with the opposing score above
\* 1.3 times the current score.
C23_AdaptiveSwitchesOnScore ==
    [][ PassOf("adaptive") =>
          \A p \in Positions(grid_size) :
             LET elapsed == TimerOf(current_green_time, p) + 1
             IN  traffic_lights'[p] # traffic_lights[p]
                   <=> \/ elapsed >= adaptive_max_green_time
                       \/ /\ elapsed >= adaptive_min_green_time
                          /\ 10 * OpposingScore(p) > 13 * CurrentScore(p) ]_vars

\* the target green duration of the light at pos as claimed:
\* int(10 x current-group count / (opposing-group count + 1)) within [5, 15]
TargetGreen(pos) ==
    LET h == Len(intersection_queues[pos][EAST]) + Len(intersection_queues[pos][WEST])
        v == Len(intersection_queues[pos][NORTH]) + Len(intersection_queues[pos][SOUTH])
        raw == IF traffic_lights[pos] = HORIZONTAL
               THEN (10 * h) \div (v + 1) ELSE (10 * v) \div (h + 1)
    IN  IF raw < 5 THEN 5 ELSE IF raw > 15 THEN 15 ELSE raw

\* C24: an independent pass switches a light exactly when the passes since
\* its last switch, this one included, have reached the target green
\* duration; two switches of a light are 5 to 15 passes apart whatever the
\* queues do, and each phase of each light comes back again and again.
C24_IndependentSwitchesOnTarget ==
    /\ [][ PassOf("independent") =>
              \A p \in Positions(grid_size) :
                 /\ traffic_lights'[p] # traffic_lights[p]
                       <=> passes_since_switch[p] + 1 >= TargetGreen(p)
                 /\ traffic_lights'[p] # traffic_lights[p]
                       => passes_since_switch[p] + 1 \in 5 .. 15 ]_vars
    /\ \A p \in Positions(ScheduleGrid) :
          /\ []<>(traffic_lights[p] = HORIZONTAL)
          /\ []<>(traffic_lights[p] = VERTICAL)

\* a light that was switched to VERTICAL has been kept green for 14 passes
\* by its queues and is about to be switched at the upper bound
C24_Witness ==
    /\ pc = "controller"
    /\ current_scheduler = "independent"
    /\ \E p \in Positions(grid_size) :
          /\ traffic_lights[p] = VERTICAL
          /\ passes_since_switch[p] = 14
          /\ TargetGreen(p) = 15

AllQueuesEmpty ==
    \A p \in Positions(grid_size) : \A d \in Directions : intersection_queues[p][d] = << >>

\* the elapsed green time the scheduler in use holds for pos, this pass included
ElapsedOf(pos) ==
    IF current_scheduler = "independent" THEN TimerOf(intersection_timers, pos) + 1
    ELSE TimerOf(current_green_time, pos) + 1

\* the time bound on which a strategy alternates a light with empty queues
\* (none is claimed for 'simple')
EmptyPeriod(name) ==
    IF name = "independent" THEN 5 ELSE IF name = "density" THEN 20
    ELSE IF name = "adaptive" THEN 30 ELSE 0

\* C25 as claimed: with all queues empty a pass of any strategy completes,
\* and it switches a light exactly when the strategy's time bound is reached
\* (independent 5, density 20, adaptive 30).
C25_EmptyQueuesPassCompletes ==
    [][ (pc = "controller" /\ pc' # "controller" /\ AllQueuesEmpty) =>
          /\ pc' = "move"
          /\ current_scheduler # "simple" =>
                \A p \in Positions(grid_size) :
                    traffic_lights'[p] # traffic_lights[p]
                       <=> ElapsedOf(p) >= EmptyPeriod(current_scheduler) ]_vars

\* a call of set_scheduler between two steps that changes the controller
SchedulerSwap == pc = "controller" /\ pc' = "controller" /\ Controller' # Controller

\* C26: the controller starts with 'independent'; set_scheduler with an
\* unrecognised name leaves the scheduler in use and the timing state as
\* they are, with a recognised name in any case get_current_scheduler()
\* returns that name afterwards; no call touches a light or ends in an error.
C26_SetSchedulerByName ==
    /\ get_current_scheduler(Controller) = "independent"
    /\ [](\A scheduler_name \in SchedulerNames :
            LET after == set_scheduler(Controller, scheduler_name)
            IN  IF lower(scheduler_name) \in schedulers
                THEN get_current_scheduler(after) = lower(scheduler_name)
                ELSE after = Controller)
    /\ [][ SchedulerSwap =>
              /\ traffic_lights' = traffic_lights
              /\ \E scheduler_name \in SchedulerNames :
                    /\ lower(scheduler_name) \in schedulers
                    /\ Controller' = set_scheduler(Controller, scheduler_name) ]_vars

\* after some ticks of the independent scheduler, whose timers are still
\* there, 'adaptive' has been selected
C26_Witness ==
    /\ pc = "controller"
    /\ time_step > 0
    /\ get_current_scheduler(Controller) = "adaptive"
    /\ DOMAIN intersection_timers # { }
    /\ DOMAIN current_green_time = { }

\* C27: a call of set_scheduler that selects a scheduler leaves every light
\* as it is and the selected strategy's elapsed-green counters empty, so that
\* the elapsed time of every light is 0 when the next pass begins (1 once
\* the pass has counted itself), however long the light has been green; the
\* 'simple' scheduler keeps no counters.
C27_SwapResetsTiming ==
    [][ SchedulerSwap =>
          /\ traffic_lights' = traffic_lights
          /\ current_scheduler' \in { "density", "adaptive" } => DOMAIN current_green_time' = { }
          /\ current_scheduler' = "independent" => DOMAIN intersection_timers' = { }
          /\ current_scheduler' # "simple" =>
                \A p \in Positions(grid_size) : ElapsedOf(p)' = 1 ]_vars

\* a light switched to VERTICAL and green for some passes since; the
\* independent scheduler has just been selected again and its timers are empty
C27_Witness ==
    /\ pc = "controller"
    /\ current_scheduler = "independent"
    /\ DOMAIN intersection_timers = { }
    /\ \E p \in Positions(grid_size) :
          traffic_lights[p] = VERTICAL /\ passes_since_switch[p] >= 1

\* the vehicles generate_vehicles has created in the tick
Spawned == (Len(pre_vehicles) + 1) .. Len(vehicles)

\* C28: after generate_vehicles every vehicle created in the tick has a
\* destination other than the intersection it stands at, is at path index 0
\* and stands in exactly one queue, once, at that intersection; no two of
\* them were created at the same intersection.
C28_SpawnedVehicleQueuedOnce ==
    pc = "remove" =>
        /\ \A id \in Spawned :
              /\ vehicles[id].destination # vehicles[id].current_pos
              /\ vehicles[id].current_path_index = 0
              /\ vehicles[id].current_pos = vehicles[id].path[1]
              /\ Cardinality(EntriesOf(id)) = 1
              /\ \A e \in EntriesOf(id) : e[1] = vehicles[id].current_pos
        /\ \A a, b \in Spawned :
              a # b => vehicles[a].current_pos # vehicles[b].current_pos

\* a vehicle has been created at an intersection where another one waits
C28_Witness ==
    /\ pc = "remove"
    /\ \E id \in Spawned : \E other \in 1 .. Len(pre_vehicles) :
          /\ IsQueued(id)
          /\ IsQueued(other)
          /\ vehicles[other].current_pos = vehicles[id].current_pos

\* C29 as claimed: step() never stays in the search of generate_vehicles for
\* a destination other than the spawn point.
C29_DestinationSearchEnds == pc # "while True"

\* the arguments Simulation is meant to accept: positive dimensions and a
\* probability within [0, 1]
ValidConfiguration ==
    /\ grid_size[1] > 0
    /\ grid_size[2] > 0
    /\ p1 \in 0 .. 10

\* C30 as claimed: a simulation constructed with a non-positive dimension or
\* with a spawn probability outside [0, 1] does not exist, let alone is
\* stepped: no tick of such a configuration is ever begun.
C30_InvalidConfigurationNeverStepped ==
    ValidConfiguration \/ (pc = "controller" /\ time_step = 0)

\* ------------------------------------------------------------ average speed
\* A speed is the exact quotient << numerator, denominator >> of Python's
\* float division; a denominator of 0 is a ZeroDivisionError.
AddSpeed(a, b) == << a[1] * b[2] + b[1] * a[2], a[2] * b[2] >>

\* Mutant of get_average_speed: the quotient is taken whatever steps_taken is.
get_average_speed_NoGuard(v) == << v.distance_traveled, v.steps_taken >>

\* Vehicle.get_average_speed
get_average_speed(v) ==
    IF v.steps_taken = 0 THEN << 0, 1 >>
    ELSE << v.distance_traveled, v.steps_taken >>

\* total_speed of Simulation.get_average_speed over the queue entries
RECURSIVE total_speed(_, _, _)
total_speed(q, v, entries) ==
    IF entries = {} THEN << 0, 1 >>
    ELSE LET e == CHOOSE x \in entries : TRUE
         IN  AddSpeed(get_average_speed(v[q[e[1]][e[2]][e[3]]]),
                      total_speed(q, v, entries \ { e }))

\* Simulation.get_average_speed
Simulation_get_average_speed(g, q, v) ==
    LET entries == QueueEntries(g, q)
        total_vehicles == Cardinality(entries)
        total == total_speed(q, v, entries)
    IN  IF total_vehicles = 0 THEN << 0, 1 >>
        ELSE << total[1], total[2] * total_vehicles >>

\* C32: a vehicle's average speed is 0 with no error when steps_taken is 0
\* and distance_traveled / steps_taken otherwise, and the simulation's
\* average speed is 0 when no vehicle is queued.
C32_AverageSpeedDefined ==
    /\ \A id \in VehicleIds :
          LET v == vehicles[id]
              speed == get_average_speed(v)
          IN  /\ speed[2] # 0
              /\ v.steps_taken = 0 => speed[1] = 0
              /\ v.steps_taken # 0 =>
                    speed[1] * v.steps_taken = v.distance_traveled * speed[2]
    /\ LET speed == Simulation_get_average_speed(grid_size, intersection_queues, vehicles)
       IN  /\ speed[2] # 0
           /\ QueueEntries(grid_size, intersection_queues) = {} => speed[1] = 0

\* a vehicle that was just created (steps_taken = 0) stands next to one that
\* has travelled, and both are queued
C32_Witness ==
    /\ \E id \in VehicleIds : vehicles[id].steps_taken = 0 /\ IsQueued(id)
    /\ \E id \in VehicleIds :
          /\ vehicles[id].steps_taken > 0
          /\ vehicles[id].distance_traveled > 0
          /\ IsQueued(id)

\* the queue of the green group of pos that is served first, and the other
FirstGreenQueue(pos) == IF traffic_lights[pos] = HORIZONTAL THEN EAST ELSE NORTH
SecondGreenQueue(pos) == IF traffic_lights[pos] = HORIZONTAL THEN WEST ELSE SOUTH

AfterStep == pc = "controller"

\* C37: in every state every vehicle stands on the waypoint its path index
\* points at and has travelled as many steps as that index; when step() has
\* returned, a queued vehicle has travelled no more steps than it has spent
\* ticks, so its average speed is at most 1.
C37_PositionFollowsIndex ==
    \A id \in VehicleIds :
        LET v == vehicles[id]
        IN  /\ v.current_path_index + 1 <= Len(v.path)
            /\ v.current_pos = PathAt(v, v.current_path_index)
            /\ v.distance_traveled = v.current_path_index
            /\ (AfterStep /\ IsQueued(id)) =>
                  /\ v.distance_traveled <= v.steps_taken
                  /\ get_average_speed(v)[1] <= get_average_speed(v)[2]

\* step() has returned with a queued vehicle that advanced in every tick of
\* its life and with one that has waited
C37_Witness ==
    /\ AfterStep
    /\ \E id \in VehicleIds :
          /\ IsQueued(id)
          /\ vehicles[id].distance_traveled = vehicles[id].steps_taken
          /\ vehicles[id].distance_traveled > 0
    /\ \E id \in VehicleIds :
          /\ IsQueued(id)
          /\ vehicles[id].distance_traveled > 0
          /\ vehicles[id].distance_traveled < vehicles[id].steps_taken

\* the vehicles that stand in some queue of q
QueuedIn(q) ==
    { q[e[1]][e[2]][e[3]] : e \in QueueEntries(grid_size, q) }

\* the vehicles whose move in the last phase brought them to their destination
ArrivedByMove ==
    { id \in 1 .. Len(pre_vehicles) :
        Advanced(id) /\ has_reached_destination(vehicles[id]) }

\* C38: move_vehicles neither loses nor duplicates a vehicle: the vehicles
\* queued after it are those queued before it less those its moves brought
\* to their destination, each queued once; and when step() has returned
\* active_vehicles is the sum of all queue lengths.
C38_MovementConservesVehicles ==
    /\ AfterMove =>
          /\ QueuedIn(intersection_queues) = QueuedIn(pre_queues) \ ArrivedByMove
          /\ Cardinality(QueueEntries(grid_size, intersection_queues))
               = Cardinality(QueuedIn(intersection_queues))
    /\ AfterStep =>
          active_vehicles = Cardinality(QueueEntries(grid_size, intersection_queues))

\* move_vehicles has moved one vehicle to its destination and another one
\* into the next queue of its path
C38_Witness ==
    /\ AfterMove
    /\ ArrivedByMove # {}
    /\ \E id \in QueuedIn(intersection_queues) : Advanced(id)

\* ------------------------------------------------- pause and the detail view
\* PauseSpec runs the simulation of Spec on the 3x3 grid with the pause key
\* and the selections of the detail view, which are used between two steps.
PauseGrid == << 3, 3 >>

\* the positions a click may select: the spawn site, a corner and one beyond
\* the last row
ClickPositions(g) == SpawnSites(g) \cup { << 0, 0 >>, << g[1], 0 >> }

\* the fields toggle_pause works on
Selection ==
    [ paused |-> paused,
      selected_intersection |-> selected_intersection,
      selected_vehicle |-> selected_vehicle ]

\* Mutant of toggle_pause: the selections outlive the pause.
toggle_pause_KeepsSelection(s) == [ s EXCEPT !.paused = ~s.paused ]

\* Simulation.toggle_pause
toggle_pause(s) ==
    IF s.paused
    THEN [ paused |-> FALSE, selected_intersection |-> NoIntersection, selected_vehicle |-> NoVehicle ]
    ELSE [ s EXCEPT !.paused = TRUE ]

TogglePause ==
    /\ pc = "controller"
    /\ paused' = toggle_pause(Selection).paused
    /\ selected_intersection' = toggle_pause(Selection).selected_intersection
    /\ selected_vehicle' = toggle_pause(Selection).selected_vehicle
    /\ UNCHANGED scheduler_vars
    /\ UNCHANGED << grid_size, p1, town, passes_since_switch, intersection_queues,
                    traffic_lights, intersection_timers, vehicles, time_step,
                    active_vehicles, pc, moved_vehicles, pre_queues, pre_vehicles >>

\* Simulation.step while paused: it returns at once
PausedStep ==
    /\ pc = "controller"
    /\ paused
    /\ UNCHANGED vars

\* Simulation.select_intersection(pos)
SelectIntersection ==
    /\ pc = "controller"
    /\ \E pos \in ClickPositions(grid_size) :
          IF paused /\ pos[1] < grid_size[1] /\ pos[2] < grid_size[2]
          THEN /\ selected_intersection' = pos
               /\ selected_vehicle' = NoVehicle
          ELSE UNCHANGED << selected_intersection, selected_vehicle >>
    /\ UNCHANGED scheduler_vars
    /\ UNCHANGED << grid_size, p1, town, paused, passes_since_switch, intersection_queues,
                    traffic_lights, intersection_timers, vehicles, time_step,
                    active_vehicles, pc, moved_vehicles, pre_queues, pre_vehicles >>

\* Simulation.select_vehicle(intersection, queue_idx, vehicle_idx); the
\* queues of get_intersection_info come in the order North, South, East, West
SelectVehicle ==
    /\ pc = "controller"
    /\ \E intersection \in ClickPositions(grid_size), queue_idx \in 0 .. 4, vehicle_idx \in 0 .. 1 :
          IF /\ paused
             /\ intersection \in Positions(grid_size)
             /\ queue_idx < Len(DirectionOrder)
             /\ vehicle_idx < Len(intersection_queues[intersection][DirectionOrder[queue_idx + 1]])
          THEN selected_vehicle' =
                 intersection_queues[intersection][DirectionOrder[queue_idx + 1]][vehicle_idx + 1]
          ELSE UNCHANGED selected_vehicle
    /\ UNCHANGED scheduler_vars
    /\ UNCHANGED << grid_size, p1, town, paused, selected_intersection, passes_since_switch,
                    intersection_queues, traffic_lights, intersection_timers, vehicles,
                    time_step, active_vehicles, pc, moved_vehicles, pre_queues, pre_vehicles >>

PauseNext ==
    \/ ControllerUpdate
    \/ MoveVehicles
    \/ UpdateVehiclesTime
    \/ GenerateVehicles
    \/ RemoveVehicles
    \/ FinishStep
    \/ TogglePause
    \/ PausedStep
    \/ SelectIntersection
    \/ SelectVehicle

PauseInit == Init /\ grid_size = PauseGrid /\ p1 = 1

PauseSpec == PauseInit /\ [][PauseNext]_vars

\* what step() works on: the tick counter, the lights, the timers of the
\* schedulers, the queues, the vehicles and their counters
simulation_vars ==
    << time_step, traffic_lights, intersection_timers, current_green_time,
       intersection_queues, vehicles, active_vehicles, pc >>

\* C39: while the simulation is paused step() changes nothing (no step
\* taken in a paused state changes the tick counter, a light, a timer, a
\* queue, a vehicle or a counter); toggle_pause flips the flag, and on
\* resuming it clears the selected intersection and the selected vehicle.
C39_PausedStepChangesNothing ==
    [][ /\ paused => UNCHANGED simulation_vars
        /\ paused' # paused =>
              /\ UNCHANGED simulation_vars
              /\ paused' = ~paused
              /\ ~paused' => (selected_intersection' = NoIntersection /\ selected_vehicle' = NoVehicle)
              /\ paused' => UNCHANGED << selected_intersection, selected_vehicle >>
      ]_vars

\* the simulation is paused after some ticks, with vehicles queued and an
\* intersection and a vehicle selected: step() returns at once and the next
\* toggle_pause resumes
C39_Witness ==
    /\ paused
    /\ time_step > 0
    /\ selected_intersection # NoIntersection
    /\ selected_vehicle # NoVehicle
    /\ QueueEntries(grid_size, intersection_queues) # {}

\* ------------------------------------ the Town of src/traffic_model.py and
\* the TrafficSimulation of src/simulation.py that steps it.  TownSpec
\* constructs a TrafficSimulation and calls step(); a caller may also call
\* Town.add_vehicle.  vehicle_stats and the visualizer are display data and
\* are not modelled.  Vehicles are numbered from 1.
STRAIGHT == "STRAIGHT"
LEFT == "LEFT"
RIGHT == "RIGHT"
Actions == { STRAIGHT, LEFT, RIGHT }

BASIC == "BASIC"
INDEPENDENT == "INDEPENDENT"
TrafficLightStrategy == { BASIC, INDEPENDENT }

\* TrafficLight.__init__ of traffic_model.py
cycle_length == 10
town_min_green_time == 3
pressure_threshold == 1
town_max_green_time == 15

\* max_steps, rows and cols, num_vehicles of the simulations constructed,
\* the positions random.randint draws for their vehicles, and the Vehicle
\* objects of one run
MaxTownSteps == 4
MaxTownVehicles == 3
TownGridSizes == { << 2, 2 >> }
TownFleetSizes == { 1, 2 }
TownStartPositions(g) == { << 0, 0 >>, << 0, 1 >> }

\* the positions a caller of Town.add_vehicle passes: one intersection and
\* three positions beyond the edges
CallPositions(g) == { << 0, 0 >>, << -1, 0 >>, << 0, g[2] >>, << g[1], g[2] >> }

\* current_position = None
NoPosition == << >>

\* Vehicle.__init__
TownVehicle(action) ==
    [ action |-> action,
      current_position |-> NoPosition,
      incoming_direction |-> "None",
      trajectory |-> << >> ]

exit_direction(action, incoming_direction) ==
    IF action = STRAIGHT
    THEN CASE incoming_direction = NORTH -> SOUTH
           [] incoming_direction = SOUTH -> NORTH
           [] incoming_direction = EAST -> WEST
           [] OTHER -> EAST
    ELSE IF action = LEFT
    THEN CASE incoming_direction = NORTH -> EAST
           [] incoming_direction = SOUTH -> WEST
           [] incoming_direction = EAST -> SOUTH
           [] OTHER -> NORTH
    ELSE CASE incoming_direction = NORTH -> WEST
           [] incoming_direction = SOUTH -> EAST
           [] incoming_direction = EAST -> NORTH
           [] OTHER -> SOUTH

\* The position next to the vehicle's on a torus of rows x cols: beyond an
\* edge lies the opposite edge.
TorusNextPosition(v, rows, cols) ==
    LET row == v.current_position[1]
        col == v.current_position[2]
        exit == exit_direction(v.action, v.incoming_direction)
    IN  CASE exit = NORTH -> << << PyMod(row - 1, rows), col >>, SOUTH >>
          [] exit = SOUTH -> << << PyMod(row + 1, rows), col >>, NORTH >>
          [] exit = EAST -> << << row, PyMod(col + 1, cols) >>, WEST >>
          [] OTHER -> << << row, PyMod(col - 1, cols) >>, EAST >>

\* Vehicle.get_next_position: (next position, next incoming direction)
Vehicle_get_next_position(v) ==
    LET row == v.current_position[1]
        col == v.current_position[2]
        exit == exit_direction(v.action, v.incoming_direction)
    IN  CASE exit = NORTH -> << << row - 1, col >>, SOUTH >>
          [] exit = SOUTH -> << << row + 1, col >>, NORTH >>
          [] exit = EAST -> << << row, col + 1 >>, WEST >>
          [] OTHER -> << << row, col - 1 >>, EAST >>

\* Vehicle.update_position
update_position(v, position, incoming_direction) ==
    [ v EXCEPT !.current_position = position,
               !.incoming_direction = incoming_direction,
               !.trajectory = Append(@, position) ]

\* Town.is_valid_position
is_valid_position(t, position) ==
    /\ 0 <= position[1] /\ position[1] < t.rows
    /\ 0 <= position[2] /\ position[2] < t.cols

\* Mutant of Town_add_vehicle: the vehicle is updated before the position is
\* checked.
Town_add_vehicle_UpdatesFirst(t, id, position, incoming_direction) ==
    IF is_valid_position(t, position)
    THEN [ town |-> [ t EXCEPT !.grid[position][incoming_direction] = Append(@, id),
                               !.objects[id] = update_position(@, position, incoming_direction) ],
           raised |-> "None" ]
    ELSE [ town |-> [ t EXCEPT !.objects[id] = update_position(@, position, incoming_direction) ],
           raised |-> "ValueError" ]

\* Town.add_vehicle: the town after the call and the exception it raised
Town_add_vehicle(t, id, position, incoming_direction) ==
    IF is_valid_position(t, position)
    THEN [ town |-> [ t EXCEPT !.grid[position][incoming_direction] = Append(@, id),
                               !.objects[id] = update_position(@, position, incoming_direction) ],
           raised |-> "None" ]
    ELSE [ town |-> t, raised |-> "ValueError" ]

\* the queues of an intersection in the order of its dict
TownQueueOrder == << EAST, SOUTH, WEST, NORTH >>

\* Town.remove_vehicle: the vehicle leaves the first queue of its
\* intersection that holds it (move_vehicle calls it for the head of a queue)
RECURSIVE RemoveFromQueues(_, _, _, _)
RemoveFromQueues(t, id, position, k) ==
    IF k > Len(TownQueueOrder) THEN t
    ELSE IF InSeq(t.grid[position][TownQueueOrder[k]], id)
    THEN [ t EXCEPT !.grid[position][TownQueueOrder[k]] = RemoveFirst(@, id) ]
    ELSE RemoveFromQueues(t, id, position, k + 1)

Town_remove_vehicle(t, id) ==
    IF t.objects[id].current_position # NoPosition
    THEN RemoveFromQueues(t, id, t.objects[id].current_position, 1)
    ELSE t

\* TrafficLight.can_move
can_move(light, direction, action) ==
    \/ action = RIGHT
    \/ direction \in { NORTH, SOUTH } /\ light.is_ns_green
    \/ direction \in { EAST, WEST } /\ ~light.is_ns_green

\* TrafficLight.calculate_pressure, doubled: (ns_pressure, ew_pressure)
calculate_pressure(light, queues) ==
    << 2 * (Len(queues[NORTH]) + Len(queues[SOUTH])) + (IF light.is_ns_green THEN 1 ELSE 0),
       2 * (Len(queues[EAST]) + Len(queues[WEST])) + (IF light.is_ns_green THEN 0 ELSE 1) >>

\* TrafficLight.should_switch
should_switch(light, queues) ==
    IF light.current_cycle >= town_max_green_time THEN TRUE
    ELSE IF light.current_cycle < town_min_green_time THEN FALSE
    ELSE LET pressure == calculate_pressure(light, queues)
         IN  IF light.is_ns_green
             THEN pressure[2] > pressure[1] + 2 * pressure_threshold
             ELSE pressure[1] > pressure[2] + 2 * pressure_threshold

\* TrafficLight.update
TownLight_update(light, strategy, queues) ==
    LET counted == [ light EXCEPT !.current_cycle = light.current_cycle + 1 ]
        switched == [ is_ns_green |-> ~light.is_ns_green, current_cycle |-> 0 ]
    IN  IF strategy = BASIC
        THEN IF counted.current_cycle >= cycle_length THEN switched ELSE counted
        ELSE IF should_switch(counted, queues) THEN switched ELSE counted

\* Town.update_traffic_lights
update_traffic_lights(t) ==
    [ t EXCEPT !.lights =
        [ p \in DOMAIN t.lights |-> TownLight_update(t.lights[p], t.light_strategy, t.grid[p]) ] ]

\* Town.move_vehicle: the town after the call and the value returned;
\* new_action is the draw of random.choice(list(Action))
Town_move_vehicle(t, id, new_action) ==
    LET v == t.objects[id]
    IN  IF v.current_position = NoPosition THEN [ town |-> t, moved |-> FALSE ]
        ELSE LET direction_queue == t.grid[v.current_position][v.incoming_direction]
             IN  IF direction_queue = << >> \/ direction_queue[1] # id
                 THEN [ town |-> t, moved |-> TRUE ]
                 ELSE IF ~can_move(t.lights[v.current_position], v.incoming_direction, v.action)
                 THEN [ town |-> t, moved |-> TRUE ]
                 ELSE LET next == Vehicle_get_next_position(v)
                      IN  IF ~is_valid_position(t, next[1])
                          THEN [ town |-> Town_remove_vehicle(t, id), moved |-> FALSE ]
                          ELSE LET removed == Town_remove_vehicle(t, id)
                                   redrawn == [ removed EXCEPT !.objects[id].action = new_action ]
                               IN  [ town |-> Town_add_vehicle(redrawn, id, next[1], next[2]).town,
                                     moved |-> TRUE ]

\* the loop of TrafficSimulation.step over self.vehicles from its k-th entry:
\* the town after it and vehicles_to_remove
RECURSIVE MoveRoster(_, _, _, _)
MoveRoster(t, k, choice, vehicles_to_remove) ==
    IF k > Len(t.vehicles) THEN [ town |-> t, vehicles_to_remove |-> vehicles_to_remove ]
    ELSE LET r == Town_move_vehicle(t, t.vehicles[k], choice[k])
         IN  MoveRoster(r.town, k + 1, choice,
                        IF r.moved THEN vehicles_to_remove
                        ELSE Append(vehicles_to_remove, t.vehicles[k]))

\* Town.__init__ and the first lines of TrafficSimulation.__init__
EmptyTown(g, strategy) ==
    [ rows |-> g[1],
      cols |-> g[2],
      light_strategy |-> strategy,
      grid |-> EmptyQueues(g),
      lights |-> [ p \in Positions(g) |-> [ is_ns_green |-> TRUE, current_cycle |-> 0 ] ],
      objects |-> << >>,
      vehicles |-> << >> ]

\* the loop of TrafficSimulation.__init__ that creates the vehicles;
\* starts[i] = (action, position, direction) drawn for vehicle i
RECURSIVE CreateVehicles(_, _, _)
CreateVehicles(t, starts, i) ==
    IF i > Len(starts) THEN t
    ELSE LET made == [ t EXCEPT !.objects = Append(@, TownVehicle(starts[i][1])) ]
             added == Town_add_vehicle(made, i, starts[i][2], starts[i][3]).town
             again == [ added EXCEPT !.objects[i] = update_position(@, starts[i][2], starts[i][3]) ]
         IN  CreateVehicles([ again EXCEPT !.vehicles = Append(@, i) ], starts, i + 1)

TownStarts(g) ==
    UNION { [ 1 .. n -> Actions \X TownStartPositions(g) \X Directions ] : n \in TownFleetSizes }

TownInit ==
    /\ grid_size \in TownGridSizes
    /\ \E strategy \in TrafficLightStrategy : \E starts \in TownStarts(grid_size) :
          town = CreateVehicles(EmptyTown(grid_size, strategy), starts, 1)
    /\ time_step = 0
    /\ pc = "town"
    /\ p1 = 0
    /\ passes_since_switch = NoPasses(grid_size)
    /\ paused = FALSE
    /\ selected_intersection = NoIntersection
    /\ selected_vehicle = NoVehicle
    /\ intersection_queues = EmptyQueues(grid_size)
    /\ traffic_lights = InitialLights(grid_size)
    /\ intersection_timers = [ p \in {} |-> 0 ]
    /\ vehicles = << >>
    /\ active_vehicles = 0
    /\ moved_vehicles = {}
    /\ pre_queues = EmptyQueues(grid_size)
    /\ pre_vehicles = << >>
    /\ current_scheduler = "independent"
    /\ current_green_time = [ p \in {} |-> 0 ]

\* what the Town model does not touch
simulation_state ==
    << grid_size, p1, passes_since_switch, selection_vars, intersection_queues,
       traffic_lights, intersection_timers, vehicles, active_vehicles,
       moved_vehicles, pre_queues, pre_vehicles, scheduler_vars >>

\* TrafficSimulation.step
TownStep ==
    /\ pc = "town"
    /\ time_step < MaxTownSteps
    /\ time_step' = time_step + 1
    /\ \E choice \in [ 1 .. Len(town.vehicles) -> Actions ] :
          LET r == MoveRoster(update_traffic_lights(town), 1, choice, << >>)
          IN  town' = [ r.town EXCEPT !.vehicles =
                          SelectSeq(@, LAMBDA id : ~InSeq(r.vehicles_to_remove, id)) ]
    /\ UNCHANGED pc
    /\ UNCHANGED simulation_state

\* town.add_vehicle(vehicle, position, incoming_direction) by a caller, for
\* a vehicle of the simulation at a position beyond the edges or for a new
\* Vehicle at any position; a new Vehicle that was refused is dropped with
\* the exception
AddVehicleCall ==
    /\ pc = "town"
    /\ \E position \in CallPositions(grid_size), incoming_direction \in { NORTH, EAST } :
       \E id \in 1 .. Len(town.objects) + 1 :
          /\ id > Len(town.objects) => Len(town.objects) < MaxTownVehicles
          /\ id <= Len(town.objects) => ~is_valid_position(town, position)
          /\ LET known == IF id > Len(town.objects)
                          THEN [ town EXCEPT !.objects = Append(@, TownVehicle(STRAIGHT)) ]
                          ELSE town
                 r == Town_add_vehicle(known, id, position, incoming_direction)
             IN  /\ town' = (IF r.raised = "None" \/ id <= Len(town.objects)
                              THEN r.town ELSE town)
                 /\ pc' = (IF r.raised = "None" THEN "town" ELSE r.raised)
    /\ UNCHANGED time_step
    /\ UNCHANGED simulation_state

TownNext ==
    \/ TownStep
    \/ AddVehicleCall

TownSpec == TownInit /\ [][TownNext]_vars

\* a call of TrafficSimulation.step
IsTownStep == time_step' = time_step + 1

\* C31 as claimed, for the Town: a step removes no vehicle of the simulation,
\* leaves every vehicle on a position of the grid, and a vehicle that moved
\* stands on the neighbouring position of the torus (beyond an edge, on the
\* opposite edge).
C31_TownIsToroidal ==
    [][ IsTownStep =>
          \A k \in 1 .. Len(town.vehicles) :
              LET id == town.vehicles[k]
                  before == town.objects[id]
                  after == town'.objects[id]
              IN  /\ InSeq(town'.vehicles, id)
                  /\ is_valid_position(town', after.current_position)
                  /\ after.trajectory # before.trajectory =>
                        after.current_position
                          = TorusNextPosition(before, town.rows, town.cols)[1]
      ]_vars

\* the positions beyond the edges that a caller passes
OutsidePositions ==
    { position \in CallPositions(grid_size) : ~is_valid_position(town, position) }

\* C33: Town.add_vehicle with a position outside the grid raises ValueError
\* and leaves every queue of the town and the vehicle's position, incoming
\* direction and trajectory as they were.
C33_AddOutsideRaisesAndChangesNothing ==
    /\ [](pc = "town" =>
            \A position \in OutsidePositions, incoming_direction \in Directions :
                \A id \in 1 .. Len(town.objects) :
                    LET r == Town_add_vehicle(town, id, position, incoming_direction)
                    IN  /\ r.raised = "ValueError"
                        /\ r.town.grid = town.grid
                        /\ r.town.objects[id] = town.objects[id])
    /\ [][ pc' = "ValueError" =>
             /\ town'.grid = town.grid
             /\ town'.objects = town.objects ]_vars

\* add_vehicle has raised ValueError in a town that has been stepped and
\* holds queued vehicles
C33_Witness ==
    /\ pc = "ValueError"
    /\ time_step > 0
    /\ \E p \in Positions(grid_size), d \in Directions : town.grid[p][d] # << >>

\* the vehicles that stood in the queue d of pos before the step and do not
\* stand in it after
LeftQueue(pos, d) == SeqSet(town.grid[pos][d]) \ SeqSet(town'.grid[pos][d])

\* C40 as claimed: in a step of the Town model at most one vehicle leaves
\* any one queue.
C40_OneVehiclePerQueuePerStep ==
    [][ IsTownStep =>
          \A pos \in Positions(grid_size), d \in Directions :
              Cardinality(LeftQueue(pos, d)) <= 1 ]_vars

\* --------------------------------------------------- draining the grid
\* DrainSpec constructs Simulation(4, 4, p1=0.0); before the first step the
\* caller puts up to three vehicles on the grid (Vehicle(start,
\* destination, grid_size) and grid.add_vehicle(start, vehicle)).  main calls
\* step() for ever, so the steps of the tick are taken under weak fairness.
DrainGrid == << 4, 4 >>

\* the trips (start, destination) of the vehicles put on the grid: each has a
\* shortest path either way around the torus, and the third one crosses the
\* start of the other two
DrainTrips ==
    { << << 1, 1 >>, << 1, 3 >> >>,
      << << 1, 1 >>, << 3, 1 >> >>,
      << << 1, 0 >>, << 1, 2 >> >> }

\* how many vehicles the caller may put on the grid
DrainFleetSizes == { 1, 2, 3 }

DrainPaths == UNION { ShortestPaths(DrainGrid, trip[1], trip[2]) : trip \in DrainTrips }

PlaceVehicle ==
    /\ pc = "controller"
    /\ time_step = 0
    /\ Len(vehicles) + 1 \in DrainFleetSizes
    /\ \E path \in DrainPaths :
          LET vehicle == NewVehicle(path[1], path[Len(path)], grid_size, path)
          IN  /\ vehicles' = Append(vehicles, vehicle)
              /\ intersection_queues' =
                    add_vehicle(grid_size, intersection_queues, path[1], vehicle,
                                Len(vehicles) + 1)
    /\ UNCHANGED scheduler_vars
    /\ UNCHANGED << grid_size, p1, town, selection_vars, passes_since_switch,
                    traffic_lights, intersection_timers, time_step,
                    active_vehicles, pc, moved_vehicles, pre_queues, pre_vehicles >>

DrainStep ==
    \/ ControllerUpdate
    \/ MoveVehicles
    \/ UpdateVehiclesTime
    \/ GenerateVehicles
    \/ RemoveVehicles
    \/ FinishStep

DrainNext ==
    \/ DrainStep
    \/ PlaceVehicle

DrainInit ==
    /\ grid_size = DrainGrid
    /\ p1 = 0
    /\ passes_since_switch = NoPasses(grid_size)
    /\ paused = FALSE
    /\ selected_intersection = NoIntersection
    /\ selected_vehicle = NoVehicle
    /\ town = "None"
    /\ intersection_queues = EmptyQueues(grid_size)
    /\ traffic_lights = InitialLights(grid_size)
    /\ intersection_timers = [ p \in {} |-> 0 ]
    /\ vehicles = << >>
    /\ time_step = 0
    /\ active_vehicles = 0
    /\ pc = "controller"
    /\ moved_vehicles = {}
    /\ pre_queues = EmptyQueues(grid_size)
    /\ pre_vehicles = << >>
    /\ current_scheduler = "independent"
    /\ current_green_time = [ p \in {} |-> 0 ]

DrainSpec == DrainInit /\ [][DrainNext]_vars /\ WF_vars(DrainStep)

AllArrived == \A id \in VehicleIds : has_reached_destination(vehicles[id])

\* C36: with spawn probability 0, the independent scheduler and step()
\* called for ever, every vehicle eventually reaches its destination and all
\* queues eventually become and stay empty.
C36_GridDrains ==
    <>[](AllQueuesEmpty /\ AllArrived)

\* three vehicles are on the grid after some ticks, two of them in the two
\* queues of one direction group of an intersection
C36_Witness ==
    /\ p1 = 0
    /\ time_step > 0
    /\ Cardinality(QueuedIn(intersection_queues)) = 3
    /\ \E pos \in Positions(grid_size) :
          \/ intersection_queues[pos][EAST] # << >> /\ intersection_queues[pos][WEST] # << >>
          \/ intersection_queues[pos][NORTH] # << >> /\ intersection_queues[pos][SOUTH] # << >>

\* ------------------------------------------------------------- starvation
\* StarveSpec constructs Simulation(3, 3, p1=0.1) and calls step() for ever
\* (main's loop, hence weak fairness of the step).  The draw of
\* generate_vehicles succeeds at (1, 1) or nowhere, and the destination
\* drawn is the neighbour to the East or to the West.
\*
\* Python's integers never repeat, so the counters no branch of step()
\* reads under the independent scheduler are followed up to a cap and kept
\* there: time_step (schedule() ignores its time_step argument),
\* steps_taken and waiting_times (written by update_time, read by the
\* display only).  A Vehicle that has arrived is in no queue and nothing
\* refers to it after the step: the next Vehicle constructed may take its
\* place in memory, and takes its number here.
StarveGrid == << 3, 3 >>
StarveSite == << 1, 1 >>
StarveDests == { << 1, 2 >>, << 1, 0 >> }
StarvePaths == UNION { ShortestPaths(StarveGrid, StarveSite, t) : t \in StarveDests }

\* the Vehicle objects alive at a time
MaxStarveVehicles == 2
\* the cap of time_step (below MaxTime, the ticks ControllerUpdate follows)
MaxStarveTime == 1
\* the cap of steps_taken and of a waiting time
MaxStarveAge == 1

StarveSlots == 1 .. MaxStarveVehicles

\* update_time, the two counters kept at the cap
update_time_capped(v) ==
    [ v EXCEPT !.steps_taken = Min2(v.steps_taken + 1, MaxStarveAge),
               !.waiting_times[v.current_pos] =
                   Min2(v.waiting_times[v.current_pos] + 1, MaxStarveAge) ]

RECURSIVE UpdateTimeTimesCapped(_, _)
UpdateTimeTimesCapped(v, n) ==
    IF n = 0 THEN v ELSE UpdateTimeTimesCapped(update_time_capped(v), n - 1)

\* vehicle.update_time() for every entry of every queue
StarveUpdateTime ==
    /\ pc = "time"
    /\ grid_size = StarveGrid
    /\ vehicles' =
         [ id \in 1 .. Len(vehicles) |->
             UpdateTimeTimesCapped(vehicles[id],
                                   TimesQueued(grid_size, intersection_queues, id)) ]
    /\ pre_queues' = intersection_queues
    /\ pre_vehicles' = vehicles
    /\ pc' = "generate"
    /\ UNCHANGED scheduler_vars
    /\ UNCHANGED << grid_size, p1, town, selection_vars, passes_since_switch, intersection_queues, traffic_lights,
                    intersection_timers, time_step, active_vehicles, moved_vehicles >>

\* the numbers of the vehicles that arrived
FreeSlots == { id \in VehicleIds : has_reached_destination(vehicles[id]) }

\* the number the next Vehicle gets
NextSlot ==
    IF FreeSlots # { }
    THEN CHOOSE id \in FreeSlots : \A other \in FreeSlots : id <= other
    ELSE Len(vehicles) + 1

\* generate_vehicles: no draw succeeds, or the one at StarveSite does
StarveGenerate ==
    /\ pc = "generate"
    /\ grid_size = StarveGrid
    /\ \/ UNCHANGED << intersection_queues, vehicles >>
       \/ /\ NextSlot \in StarveSlots
          /\ \E path \in StarvePaths :
               LET vehicle == NewVehicle(StarveSite, path[Len(path)], grid_size, path)
               IN  /\ intersection_queues' =
                        add_vehicle(grid_size, intersection_queues, StarveSite,
                                    vehicle, NextSlot)
                   /\ vehicles' =
                        IF NextSlot <= Len(vehicles)
                        THEN [ vehicles EXCEPT ![NextSlot] = vehicle ]
                        ELSE Append(vehicles, vehicle)
    /\ pre_queues' = intersection_queues
    /\ pre_vehicles' = vehicles
    /\ pc' = "remove"
    /\ UNCHANGED scheduler_vars
    /\ UNCHANGED << grid_size, p1, town, selection_vars, passes_since_switch, traffic_lights, intersection_timers, time_step,
                    active_vehicles, moved_vehicles >>

\* the last lines of step(), time_step kept at the cap
StarveFinish ==
    /\ pc = "count"
    /\ grid_size = StarveGrid
    /\ active_vehicles' = Cardinality(QueueEntries(grid_size, intersection_queues))
    /\ time_step' = Min2(time_step + 1, MaxStarveTime)
    /\ pc' = "controller"
    /\ UNCHANGED scheduler_vars
    /\ UNCHANGED << grid_size, p1, town, selection_vars, passes_since_switch, intersection_queues, traffic_lights,
                    intersection_timers, vehicles, moved_vehicles,
                    pre_queues, pre_vehicles >>

StarveNext ==
    \/ ControllerUpdate
    \/ MoveVehicles
    \/ StarveUpdateTime
    \/ StarveGenerate
    \/ RemoveVehicles
    \/ StarveFinish

StarveInit ==
    /\ grid_size = StarveGrid
    /\ p1 = 1
    /\ passes_since_switch = NoPasses(grid_size)
    /\ paused = FALSE
    /\ selected_intersection = NoIntersection
    /\ selected_vehicle = NoVehicle
    /\ town = "None"
    /\ intersection_queues = EmptyQueues(grid_size)
    /\ traffic_lights = InitialLights(grid_size)
    /\ intersection_timers = [ p \in {} |-> 0 ]
    /\ vehicles = << >>
    /\ time_step = 0
    /\ active_vehicles = 0
    /\ pc = "controller"
    /\ moved_vehicles = {}
    /\ pre_queues = EmptyQueues(grid_size)
    /\ pre_vehicles = << >>
    /\ current_scheduler = "independent"
    /\ current_green_time = [ p \in {} |-> 0 ]

StarveSpec == StarveInit /\ [][StarveNext]_vars /\ WF_vars(StarveNext)

\* the vehicle is in a queue when move_vehicles is about to run
QueuedBeforeMove(id) == pc = "move" /\ id \in QueuedIn(intersection_queues)

\* move_vehicles has just moved the vehicle
MovedByLastMove(id) == pc = "time" /\ id \in moved_vehicles

\* C35: under the independent scheduler, with vehicles spawned and step()
\* called for ever, every vehicle that is queued at some tick eventually
\* advances, whichever queue it is in.
C35_NoStarvation ==
    \A id \in StarveSlots : QueuedBeforeMove(id) ~> MovedByLastMove(id)

====
